---------------------------- MODULE Spec2Model ----------------------------
(***************************************************************************)
(* Zenith server: the /query retry loop (handleQuery), /recommend          *)
(* (handleRecommend), /feedback (handleFeedback) and the experience log    *)
(* (rl.DB) they write to.                                                  *)
(*                                                                         *)
(* Texts the code inspects character by character (the generated query)    *)
(* are sequences of one-character strings.  Texts built with fmt.Sprintf   *)
(* are sequences of pieces: the literal part of the format, then the       *)
(* formatted arguments.  The empty text is the empty sequence.  Prompts,   *)
(* store results, explanations and error messages are opaque strings.      *)
(***************************************************************************)
EXTENDS Integers, Sequences, FiniteSets, TLC

VARIABLES
    experiences,   \* rows of table experiences, in insertion order
    seq,           \* AUTOINCREMENT counter of the table (largest id issued)
    pc,            \* per request: position of its handler
    kind,          \* per request: which endpoint serves it
    query,         \* per request: req.Query
    attempt,       \* per request: loop variable attempt
    sqlQuery,      \* per request: local sqlQuery
    results,       \* per request: local results
    err,           \* per request: local err
    resp,          \* per request: what was written to the ResponseWriter
    calls,         \* per request: the collaborator calls made so far, in order
    feedbacks,     \* the /feedback requests served so far, in order
    closed,        \* the handle of the experience database has been closed
    closes,        \* the Close calls made so far, in order
    sched,         \* the goroutine of startScheduler and its ticker
    store,         \* the last operation made on the VictoriaDB client
    cli,           \* the run of zenith-cli in progress, or the last one
    shut           \* main of the server: serving, or on its way out

dbVars == <<experiences, seq>>
\* what the request handlers leave alone
auxVars == <<closed, closes, sched, store, cli, shut>>
\* what the handlers of /query, /recommend and /feedback work on
handlerVars == <<pc, kind, query, attempt, sqlQuery, results, err, resp,
                 calls, feedbacks>>
vars   == <<experiences, seq, pc, kind, query, attempt, sqlQuery, results,
            err, resp, calls, feedbacks, auxVars>>

---------------------------------------------------------------------------
(* Bounds of the model *)

\* rows already in zenith_rl.db when InitDB opens it
MaxOldRows == 1

\* requests of one behaviour; each is served once
Reqs == {"r1"}

---------------------------------------------------------------------------
(* Strings *)

NilErr == "<nil>"
NoText == << >>

WhiteSpace == {" ", "\t", "\n", "\r"}

HasPrefix(s, p) == Len(s) >= Len(p) /\ SubSeq(s, 1, Len(p)) = p

TrimPrefix(s, p) == IF HasPrefix(s, p) THEN SubSeq(s, Len(p) + 1, Len(s)) ELSE s

RECURSIVE TrimLeft(_)
TrimLeft(s) ==
    IF s # << >> /\ Head(s) \in WhiteSpace THEN TrimLeft(Tail(s)) ELSE s

RECURSIVE TrimRight(_)
TrimRight(s) ==
    IF s # << >> /\ s[Len(s)] \in WhiteSpace
    THEN TrimRight(SubSeq(s, 1, Len(s) - 1))
    ELSE s

TrimSpace(s) == TrimRight(TrimLeft(s))

\* fmt.Sprintf(format, args...): the literal part, then the arguments
Sprintf1(lit, a) == <<lit, a>>
\* mutant: the first argument is left out of the formatted text
Sprintf2_NoCount(lit1, a, lit2, b) == <<lit1, lit2, b>>

Sprintf2(lit1, a, lit2, b) == <<lit1, a, lit2, b>>

Itoa(n) == CASE n = 1 -> "1" [] n = 2 -> "2" [] n = 3 -> "3" [] n = 4 -> "4"
             [] OTHER -> "n"

PrefixLOG    == <<"L", "O", "G", ":">>
PrefixMETRIC == <<"M", "E", "T", "R", "I", "C", ":">>

---------------------------------------------------------------------------
(* Inputs *)

Methods == {"POST", "GET", "PUT"}

Prompts == {"", "p1"}

\* request bodies: malformed JSON, or an object whose query field is Query
\* ("" when the field is missing)
Bodies == {[ok |-> FALSE, Query |-> ""]} \cup
          {[ok |-> TRUE, Query |-> p] : p \in Prompts}

Errs == {"e1", "e2"}

\* texts GenerateSQL returns
TextLogQ       == PrefixLOG \o <<" ", "q", "\n">>               \* "LOG: q\n"
TextLowerLogQ  == <<"l", "o", "g", ":", " ", "q">>              \* "log: q"
TextSpaceLogQ  == <<" ">> \o PrefixLOG \o <<"q">>               \* " LOG:q"
TextMetricQ    == PrefixMETRIC \o <<" ", "q", " ">>             \* "METRIC: q "
TextMetricLogQ == PrefixMETRIC \o PrefixLOG \o <<"q">>          \* "METRIC:LOG:q"
TextQ          == <<"q", " ", "q">>                             \* "q q"

GenTexts == {TextLogQ, TextLowerLogQ, TextSpaceLogQ, TextMetricQ,
             TextMetricLogQ, TextQ}

\* what a provider call returns: (text, nil) or ("", err)
GenReturns == {[text |-> t, err |-> NilErr] : t \in GenTexts} \cup
              {[text |-> NoText, err |-> e] : e \in Errs}

\* what QueryMetrics / QueryLogs return: (rendered rows, nil) or ("", err);
\* "" is an empty result set
StoreReturns == {[text |-> t, err |-> NilErr] : t \in {"", "rows"}} \cup
                {[text |-> "", err |-> e] : e \in Errs}

\* what ExplainResults / GenerateRecommendations return
TextReturns == {[text |-> t, err |-> NilErr] : t \in {"", "a1"}} \cup
               {[text |-> "", err |-> e] : e \in Errs}

---------------------------------------------------------------------------
(* The experience log (package rl) *)

\* mutant: the INSERT binds the last two values in the other order
Experience_Swapped(id, source, prompt, generatedQuery, executionResult) ==
    [id               |-> id,
     source           |-> source,
     prompt           |-> prompt,
     generated_query  |-> executionResult,
     execution_result |-> generatedQuery,
     user_feedback    |-> 0]

\* a row of table experiences as INSERT leaves it: user_feedback takes
\* its DEFAULT 0 (the timestamp column, which no handler reads, is left out)
Experience(id, source, prompt, generatedQuery, executionResult) ==
    [id               |-> id,
     source           |-> source,
     prompt           |-> prompt,
     generated_query  |-> generatedQuery,
     execution_result |-> executionResult,
     user_feedback    |-> 0]

\* mutant: ids are counted from 0
OldRow_ZeroBased(i) == Experience(i - 1, "query", "p0", NoText, <<"Success">>)

\* rows an earlier run of the server left in the file
OldRow(i) == Experience(i, "query", "p0", NoText, <<"Success">>)

\* mutant: the id returned is that of the first row of the table
LogExperienceId_First(ok) == IF ok THEN 1 ELSE 0

\* mutant: the id returned is the one issued before this insert
LogExperienceId_Stale(ok) == IF ok THEN seq ELSE 0

\* the id LogExperience returns: the new row's AUTOINCREMENT id, or 0
\* with the error when Prepare or Exec fails (ok = FALSE).  The sqlite3
\* driver's LastInsertId never fails, so no row is inserted with 0 returned.
LogExperienceId(ok) == IF ok THEN seq + 1 ELSE 0

\* the table after LogExperience: one row more, or unchanged on an error
LogExperienceRows(ok, source, prompt, generatedQuery, executionResult) ==
    IF ok
    THEN Append(experiences,
                Experience(seq + 1, source, prompt, generatedQuery,
                           executionResult))
    ELSE experiences

\* mutant: the insert does not advance the AUTOINCREMENT counter
LogExperience_NoIncrement(ok, source, prompt, gq, er) ==
    /\ closed => ~ok
    /\ experiences' = LogExperienceRows(ok, source, prompt, gq, er)
    /\ seq' = seq

\* the effect of one LogExperience call on the database; on a closed
\* handle Prepare fails ("sql: database is closed")
LogExperience(ok, source, prompt, generatedQuery, executionResult) ==
    /\ closed => ~ok
    /\ experiences' = LogExperienceRows(ok, source, prompt, generatedQuery,
                                        executionResult)
    /\ seq' = IF ok THEN seq + 1 ELSE seq

---------------------------------------------------------------------------
(* Records of the calls a handler makes *)

GenCall(att, ret) ==
    [fn |-> "GenerateSQL", attempt |-> att, text |-> ret.text, err |-> ret.err]

StoreCall(att, op, q, gen, ret) ==
    [fn |-> op, attempt |-> att, q |-> q, generated |-> gen,
     text |-> ret.text, err |-> ret.err]

ExplainCall(userQuery, sql, res, ret) ==
    [fn |-> "ExplainResults", userQuery |-> userQuery, sql |-> sql,
     results |-> res, text |-> ret.text, err |-> ret.err]

RecommendCall(systemData, ret) ==
    [fn |-> "GenerateRecommendations", systemData |-> systemData,
     text |-> ret.text, err |-> ret.err]

LogCall(id, source, prompt, generatedQuery, executionResult) ==
    [fn |-> "LogExperience", id |-> id, source |-> source, prompt |-> prompt,
     generated_query |-> generatedQuery,
     execution_result |-> executionResult]

---------------------------------------------------------------------------
(* Responses *)

NoResponse ==
    [status |-> 0, ctype |-> "none", InteractionID |-> 0, Answer |-> "",
     Error |-> NoText]

\* http.Error(w, msg, code): a plain-text body
HttpError(code) ==
    [status |-> code, ctype |-> "text/plain", InteractionID |-> 0,
     Answer |-> "", Error |-> NoText]

\* mutant: without an id the success response carries no answer
respondAnswer_NeedsId(id, answer) ==
    [status |-> 200, ctype |-> "application/json", InteractionID |-> id,
     Answer |-> IF id = 0 THEN "" ELSE answer, Error |-> NoText]

\* mutant: the success response leaves InteractionID unset
respondAnswer_NoId(id, answer) ==
    [status |-> 200, ctype |-> "application/json", InteractionID |-> 0,
     Answer |-> answer, Error |-> NoText]

\* respondJSON(w, QueryResponse{InteractionID: id, Answer: answer})
respondAnswer(id, answer) ==
    [status |-> 200, ctype |-> "application/json", InteractionID |-> id,
     Answer |-> answer, Error |-> NoText]

\* mutant: the error response carries the id issued before the one given
respondError_Previous(msg, id) ==
    [status |-> 200, ctype |-> "application/json",
     InteractionID |-> IF id > 1 THEN id - 1 ELSE id,
     Answer |-> "", Error |-> msg]

\* mutant: the error response leaves InteractionID unset
respondError_NoId(msg, id) ==
    [status |-> 200, ctype |-> "application/json", InteractionID |-> 0,
     Answer |-> "", Error |-> msg]

\* mutant: the error response also fills Answer
respondError_Both(msg, id) ==
    [status |-> 200, ctype |-> "application/json", InteractionID |-> id,
     Answer |-> "error", Error |-> msg]

\* respondError(w, msg, id)
respondError(msg, id) ==
    [status |-> 200, ctype |-> "application/json", InteractionID |-> id,
     Answer |-> "", Error |-> msg]

---------------------------------------------------------------------------
(* handleQuery *)

\* mutant: one attempt more
maxRetries_Four == 3 + 1

maxRetries == 3

\* which store operation runs the generated text
ExecutedOp(sql) ==
    IF HasPrefix(sql, PrefixLOG) THEN "QueryLogs" ELSE "QueryMetrics"

\* mutant: the prefix is stripped, the surrounding whitespace is not
ExecutedQuery_NoTrim(sql) ==
    IF HasPrefix(sql, PrefixLOG)
    THEN TrimPrefix(sql, PrefixLOG)
    ELSE TrimPrefix(sql, PrefixMETRIC)

\* the query text handed to that operation
ExecutedQuery(sql) ==
    IF HasPrefix(sql, PrefixLOG)
    THEN TrimSpace(TrimPrefix(sql, PrefixLOG))
    ELSE TrimSpace(TrimPrefix(sql, PrefixMETRIC))

\* method check and body decoding
QueryDecodeOn(r, env) ==
    /\ pc[r] = "idle"
    /\ kind' = [kind EXCEPT ![r] = "/query"]
    /\ \E method \in env.Methods, body \in env.Bodies :
          IF method # "POST"
          THEN /\ resp' = [resp EXCEPT ![r] = HttpError(405)]
               /\ pc' = [pc EXCEPT ![r] = "done"]
               /\ UNCHANGED <<query, attempt>>
          ELSE IF ~body.ok
          THEN /\ resp' = [resp EXCEPT ![r] = HttpError(400)]
               /\ pc' = [pc EXCEPT ![r] = "done"]
               /\ UNCHANGED <<query, attempt>>
          ELSE /\ query' = [query EXCEPT ![r] = body.Query]
               /\ attempt' = [attempt EXCEPT ![r] = 1]
               /\ pc' = [pc EXCEPT ![r] = "generate"]
               /\ UNCHANGED resp
    /\ UNCHANGED <<dbVars, sqlQuery, results, err, calls, feedbacks>>
    /\ UNCHANGED auxVars

\* mutant: every generation failure is logged and ends the run
GenFailureIsFinal_Every(att) == TRUE

\* a generation failure ends the run on the last attempt only
GenFailureIsFinal(att) == att = maxRetries

\* top of the loop body: client.GenerateSQL(req.Query) and its error branch
QueryGenerateOn(r, env) ==
    /\ pc[r] = "generate"
    /\ \E ret \in env.GenReturns :
          /\ sqlQuery' = [sqlQuery EXCEPT ![r] = ret.text]
          /\ err' = [err EXCEPT ![r] = ret.err]
          /\ IF ret.err = NilErr
             THEN /\ pc' = [pc EXCEPT ![r] = "execute"]
                  /\ calls' = [calls EXCEPT ![r] =
                                  Append(@, GenCall(attempt[r], ret))]
                  /\ UNCHANGED <<dbVars, attempt, resp>>
             ELSE IF GenFailureIsFinal(attempt[r])
             THEN \E ok \in env.LogOutcomes :
                    LET er == Sprintf1("Failed to generate SQL: ", ret.err)
                        id == LogExperienceId(ok)
                    IN /\ LogExperience(ok, "query", query[r], NoText, er)
                       /\ calls' = [calls EXCEPT ![r] =
                              @ \o <<GenCall(attempt[r], ret),
                                     LogCall(id, "query", query[r], NoText,
                                             er)>>]
                       /\ resp' = [resp EXCEPT ![r] = respondError(
                              Sprintf2("Failed to generate MetricsQL after ",
                                       Itoa(maxRetries), " attempts: ",
                                       ret.err), id)]
                       /\ pc' = [pc EXCEPT ![r] = "done"]
                       /\ UNCHANGED attempt
             ELSE /\ attempt' = [attempt EXCEPT ![r] = @ + 1]
                  /\ calls' = [calls EXCEPT ![r] =
                                  Append(@, GenCall(attempt[r], ret))]
                  /\ UNCHANGED <<dbVars, pc, resp>>
    /\ UNCHANGED <<kind, query, results, feedbacks>>
    /\ UNCHANGED auxVars

\* execution_result of the row logged after every failed execution, and of
\* the second row logged after the last one
ExecutionErrorText(e) == Sprintf1("Execution Error: ", e)

\* mutant: the second row repeats the text of the first
FinalExecutionErrorText_Same(e) == Sprintf1("Execution Error: ", e)

FinalExecutionErrorText(e) == Sprintf1("Final Execution Error: ", e)

\* mutant: the last attempt's failure ends the run without the final row
AfterExecutionError_NoFinal(att) ==
    IF att = maxRetries THEN "done" ELSE "generate"

\* mutant: the last attempt's failure falls out of the loop to the explanation
AfterExecutionError_FallThrough(att) ==
    IF att = maxRetries THEN "explain" ELSE "generate"

\* mutant: a failed execution is always followed by another attempt
AfterExecutionError_Again(att) == "generate"

\* mutant: a failed execution ends the run after its row
AfterExecutionError_Done(att) == "done"

\* mutant: a failed execution is followed by the explanation
AfterExecutionError_Explain(att) == "explain"

\* where the loop goes after a failed execution has been logged
AfterExecutionError(att) == IF att = maxRetries THEN "final" ELSE "generate"

\* prefix dispatch, the store query, and the logging of its failure
QueryExecuteOn(r, env) ==
    /\ pc[r] = "execute"
    /\ \E ret \in env.StoreReturns :
          LET op == ExecutedOp(sqlQuery[r])
              q  == ExecutedQuery(sqlQuery[r])
              sc == StoreCall(attempt[r], op, q, sqlQuery[r], ret)
          IN /\ results' = [results EXCEPT ![r] = ret.text]
             /\ err' = [err EXCEPT ![r] = ret.err]
             /\ IF ret.err = NilErr
                THEN /\ pc' = [pc EXCEPT ![r] = "explain"]
                     /\ calls' = [calls EXCEPT ![r] = Append(@, sc)]
                     /\ UNCHANGED <<dbVars, attempt>>
                ELSE \E ok \in env.LogOutcomes :
                       LET er == ExecutionErrorText(ret.err)
                           id == LogExperienceId(ok)
                       IN /\ LogExperience(ok, "query", query[r],
                                           sqlQuery[r], er)
                          /\ calls' = [calls EXCEPT ![r] =
                                 @ \o <<sc, LogCall(id, "query", query[r],
                                                    sqlQuery[r], er)>>]
                          /\ pc' = [pc EXCEPT ![r] =
                                       AfterExecutionError(attempt[r])]
                          /\ attempt' = [attempt EXCEPT ![r] =
                                 IF attempt[r] = maxRetries THEN @ ELSE @ + 1]
    /\ UNCHANGED <<kind, query, sqlQuery, resp, feedbacks>>
    /\ UNCHANGED auxVars

\* last attempt failed in execution: the second row and the error response
QueryFinalErrorOn(r, env) ==
    /\ pc[r] = "final"
    /\ \E ok \in env.LogOutcomes :
          LET er == FinalExecutionErrorText(err[r])
              id == LogExperienceId(ok)
          IN /\ LogExperience(ok, "query", query[r], sqlQuery[r], er)
             /\ calls' = [calls EXCEPT ![r] =
                    Append(@, LogCall(id, "query", query[r], sqlQuery[r],
                                      er))]
             /\ resp' = [resp EXCEPT ![r] = respondError(
                    Sprintf2("Failed to execute query after ",
                             Itoa(maxRetries), " attempts: ", err[r]), id)]
    /\ pc' = [pc EXCEPT ![r] = "done"]
    /\ UNCHANGED <<kind, query, attempt, sqlQuery, results, err, feedbacks>>
    /\ UNCHANGED auxVars

\* mutant: an empty result set is replaced by a placeholder text
ExplainInput_NoData(r) ==
    [userQuery |-> query[r], sql |-> sqlQuery[r],
     results |-> IF results[r] = "" THEN "no data" ELSE results[r]]

\* mutant: the explanation is asked about the dispatched query, not the
\* generated text
ExplainInput_Stripped(r) ==
    [userQuery |-> query[r], sql |-> ExecutedQuery(sqlQuery[r]),
     results |-> results[r]]

\* the arguments of client.ExplainResults(req.Query, sqlQuery, results)
ExplainInput(r) ==
    [userQuery |-> query[r], sql |-> sqlQuery[r], results |-> results[r]]

\* after the loop: client.ExplainResults, the terminal row, the response
QueryExplainOn(r, env) ==
    /\ pc[r] = "explain"
    /\ \E ret \in env.TextReturns, ok \in env.LogOutcomes :
          LET in == ExplainInput(r)
              ec == ExplainCall(in.userQuery, in.sql, in.results, ret)
              er == IF ret.err = NilErr
                    THEN <<"Success">>
                    ELSE Sprintf1("Failed to explain results: ", ret.err)
              id == LogExperienceId(ok)
          IN /\ err' = [err EXCEPT ![r] = ret.err]
             /\ LogExperience(ok, "query", query[r], sqlQuery[r], er)
             /\ calls' = [calls EXCEPT ![r] =
                    @ \o <<ec, LogCall(id, "query", query[r], sqlQuery[r],
                                       er)>>]
             /\ resp' = [resp EXCEPT ![r] =
                    IF ret.err = NilErr
                    THEN respondAnswer(id, ret.text)
                    ELSE respondError(er, id)]
    /\ pc' = [pc EXCEPT ![r] = "done"]
    /\ UNCHANGED <<kind, query, attempt, sqlQuery, results, feedbacks>>
    /\ UNCHANGED auxVars

---------------------------------------------------------------------------
(* handleRecommend *)

\* the five fixed summary queries, in the order the handler issues them
SummaryQueries ==
    <<[op |-> "QueryMetrics", q |-> "avg(cpu_usage_pct)"],
      [op |-> "QueryMetrics", q |-> "avg(memory_used_mb)"],
      [op |-> "QueryMetrics", q |-> "topk(5, process_cpu_pct)"],
      [op |-> "QueryMetrics", q |-> "topk(5, process_memory_mb)"],
      [op |-> "QueryLogs",
       q |-> "* | filter eventMessage: \"error\" OR messageType: \"error\" | limit 10"]>>

\* what summary query i returns when it succeeds / fails
SummaryReturn(succeeds) ==
    IF succeeds THEN [text |-> "rows", err |-> NilErr]
                ELSE [text |-> "", err |-> "e1"]

\* mutant: the section of a failed query is written as well
SystemData_All(i, succeeded) ==
    [k \in i .. Len(SummaryQueries) |-> SummaryQueries[k].q]

\* systemDataBuilder: the sections of the queries that succeeded, in order
RECURSIVE SystemData(_, _)
SystemData(i, succeeded) ==
    IF i > Len(SummaryQueries) THEN << >>
    ELSE (IF i \in succeeded THEN <<SummaryQueries[i].q>> ELSE << >>)
         \o SystemData(i + 1, succeeded)

\* the whole handler: it reads the store five times, asks the provider
\* once and touches the experience log in its one LogExperience call
HandleRecommendOn(r, env) ==
    /\ pc[r] = "idle"
    /\ kind' = [kind EXCEPT ![r] = "/recommend"]
    /\ pc' = [pc EXCEPT ![r] = "done"]
    /\ \E method \in env.Methods :
          IF method # "GET" /\ method # "POST"
          THEN /\ resp' = [resp EXCEPT ![r] = HttpError(405)]
               /\ UNCHANGED <<dbVars, err, calls>>
          ELSE \E succeeded \in env.Succeeded,
                  ret \in env.TextReturns, ok \in env.LogOutcomes :
                 LET prompt == "Generate system recommendations"
                     er == IF ret.err = NilErr
                           THEN <<"Success">>
                           ELSE Sprintf1(
                                  "Failed to generate recommendations: ",
                                  ret.err)
                     id == LogExperienceId(ok)
                     sc == [i \in 1 .. Len(SummaryQueries) |->
                              StoreCall(0, SummaryQueries[i].op,
                                        SummaryQueries[i].q, NoText,
                                        SummaryReturn(i \in succeeded))]
                 IN /\ err' = [err EXCEPT ![r] = ret.err]
                    /\ LogExperience(ok, "recommend", prompt, NoText, er)
                    /\ calls' = [calls EXCEPT ![r] =
                           sc \o <<RecommendCall(SystemData(1, succeeded),
                                                 ret),
                                   LogCall(id, "recommend", prompt, NoText,
                                           er)>>]
                    /\ resp' = [resp EXCEPT ![r] =
                           IF ret.err = NilErr
                           THEN respondAnswer(id, ret.text)
                           ELSE respondError(er, id)]
    /\ UNCHANGED <<query, attempt, sqlQuery, results, feedbacks>>
    /\ UNCHANGED auxVars

---------------------------------------------------------------------------
(* UpdateFeedback (package rl) and handleFeedback *)

\* /feedback requests served in one behaviour
MaxFeedbacks == 2

\* values of interaction_id in a /feedback body: the zero value, and ids
\* that rows have or do not have, depending on the table
FeedbackIds == {0, 1, 2}

\* values of the feedback field: the two the comments give a meaning to,
\* and one more integer
FeedbackValues == {-1, 1, 2}

\* the request as handleFeedback holds it before decoding
ZeroFeedbackRequest == [ok |-> FALSE, InteractionID |-> 0, Feedback |-> 0]

\* decoded FeedbackRequest bodies: malformed JSON, or an object
FeedbackBodies ==
    {ZeroFeedbackRequest} \cup
    {[ok |-> TRUE, InteractionID |-> i, Feedback |-> v] :
        i \in FeedbackIds, v \in FeedbackValues}

\* mutant: only rows whose value changes are counted
RowsAffected_Changed(id, feedback) ==
    Cardinality({i \in DOMAIN experiences :
                    /\ experiences[i].id = id
                    /\ experiences[i].user_feedback # feedback})

\* res.RowsAffected(): the rows the WHERE clause selects; SQLite counts a
\* row it rewrites with the value it already has
RowsAffected(id, feedback) ==
    Cardinality({i \in DOMAIN experiences : experiences[i].id = id})

\* mutant: a value once given is kept
UpdateFeedbackRows_Sticky(id, feedback) ==
    [i \in DOMAIN experiences |->
        IF experiences[i].id = id /\ experiences[i].user_feedback = 0
        THEN [experiences[i] EXCEPT !.user_feedback = feedback]
        ELSE experiences[i]]

\* mutant: the UPDATE has no WHERE clause
UpdateFeedbackRows_AllRows(id, feedback) ==
    [i \in DOMAIN experiences |->
        [experiences[i] EXCEPT !.user_feedback = feedback]]

\* UPDATE experiences SET user_feedback = ? WHERE id = ?
UpdateFeedbackRows(id, feedback) ==
    [i \in DOMAIN experiences |->
        IF experiences[i].id = id
        THEN [experiences[i] EXCEPT !.user_feedback = feedback]
        ELSE experiences[i]]

StorageErr == "e1"

NotFoundErr(id) == "experience ID " \o ToString(id) \o " not found"

\* mutant: an UPDATE that selects no row is not an error
UpdateFeedbackErr_Silent(ok, id, feedback) ==
    IF ~ok THEN StorageErr ELSE NilErr

\* the error UpdateFeedback returns: that of Prepare or Exec (ok = FALSE),
\* not-found when no row was affected, nil otherwise
UpdateFeedbackErr(ok, id, feedback) ==
    IF ~ok THEN StorageErr
    ELSE IF RowsAffected(id, feedback) = 0 THEN NotFoundErr(id)
    ELSE NilErr

\* the effect of one UpdateFeedback call on the database: a statement that
\* fails changes nothing
UpdateFeedback(ok, id, feedback) ==
    /\ closed => ~ok
    /\ experiences' = IF ok THEN UpdateFeedbackRows(id, feedback)
                            ELSE experiences
    /\ UNCHANGED seq

\* w.WriteHeader(http.StatusOK); w.Write([]byte(`{"status": "ok"}`))
FeedbackOK ==
    [status |-> 200, ctype |-> "text/plain", InteractionID |-> 0,
     Answer |-> "", Error |-> NoText]

\* the user_feedback values of the rows of table rows that have this id
FeedbackOf(rows, id) ==
    {rows[i].user_feedback : i \in {j \in DOMAIN rows : rows[j].id = id}}

\* one served /feedback request: the decoded body, whether UpdateFeedback
\* was called and what it returned, the response, and what the table held
\* for the request's id when the handler started and when it returned
FeedbackServed(body, called, e, response) ==
    [InteractionID |-> body.InteractionID, Feedback |-> body.Feedback,
     called |-> called, err |-> e, resp |-> response,
     before |-> FeedbackOf(experiences, body.InteractionID),
     after  |-> FeedbackOf(experiences', body.InteractionID)]

\* the whole handler: method check, decoding, the one UpdateFeedback call
HandleFeedbackOn(env) ==
    /\ Len(feedbacks) < MaxFeedbacks
    /\ \E method \in env.Methods, body \in env.FeedbackBodies,
          ok \in env.UpdateOutcomes :
          IF method # "POST"
          THEN /\ UNCHANGED dbVars
               /\ feedbacks' = Append(feedbacks,
                      FeedbackServed(ZeroFeedbackRequest, FALSE, NilErr,
                                     HttpError(405)))
          ELSE IF ~body.ok
          THEN /\ UNCHANGED dbVars
               /\ feedbacks' = Append(feedbacks,
                      FeedbackServed(ZeroFeedbackRequest, FALSE, NilErr,
                                     HttpError(400)))
          ELSE LET e == UpdateFeedbackErr(ok, body.InteractionID,
                                          body.Feedback)
               IN /\ UpdateFeedback(ok, body.InteractionID, body.Feedback)
                  /\ feedbacks' = Append(feedbacks,
                         FeedbackServed(body, TRUE, e,
                                        IF e # NilErr THEN HttpError(500)
                                                      ELSE FeedbackOK))
    /\ UNCHANGED <<pc, kind, query, attempt, sqlQuery, results, err, resp,
                   calls>>
    /\ UNCHANGED auxVars

---------------------------------------------------------------------------
(* Inputs of the actions *)

\* every input of section Inputs
RichInputs ==
    [Methods        |-> Methods,
     Bodies         |-> Bodies,
     GenReturns     |-> GenReturns,
     StoreReturns   |-> StoreReturns,
     TextReturns    |-> TextReturns,
     Succeeded      |-> SUBSET (1 .. Len(SummaryQueries)),
     LogOutcomes    |-> BOOLEAN,
     FeedbackBodies |-> FeedbackBodies,
     UpdateOutcomes |-> BOOLEAN]

\* one value of each kind: a success and a failure of every call
SmallInputs ==
    [Methods        |-> {"POST", "PUT"},
     Bodies         |-> {[ok |-> FALSE, Query |-> ""],
                         [ok |-> TRUE, Query |-> "p1"]},
     GenReturns     |-> {[text |-> TextLogQ, err |-> NilErr],
                         [text |-> NoText, err |-> "e1"]},
     StoreReturns   |-> {[text |-> "rows", err |-> NilErr],
                         [text |-> "", err |-> "e1"]},
     TextReturns    |-> {[text |-> "a1", err |-> NilErr],
                         [text |-> "", err |-> "e1"]},
     Succeeded      |-> {1 .. Len(SummaryQueries),
                         1 .. (Len(SummaryQueries) - 1)},
     LogOutcomes    |-> BOOLEAN,
     FeedbackBodies |-> FeedbackBodies,
     UpdateOutcomes |-> BOOLEAN]

\* SmallInputs with every write to the experience log succeeding
FeedbackInputs == [SmallInputs EXCEPT !.LogOutcomes = {TRUE}]

QueryDecode(r) == QueryDecodeOn(r, RichInputs)

QueryGenerate(r) == QueryGenerateOn(r, RichInputs)

QueryExecute(r) == QueryExecuteOn(r, RichInputs)

QueryFinalError(r) == QueryFinalErrorOn(r, RichInputs)

QueryExplain(r) == QueryExplainOn(r, RichInputs)

HandleRecommend(r) == HandleRecommendOn(r, RichInputs)

---------------------------------------------------------------------------
(* The system *)

---------------------------------------------------------------------------
(* startScheduler and runCollection *)

\* ticks the ticker fires in a behaviour
MaxTicks == 3

\* values of the -interval flag
IntervalStrs == {"5m", "1h", "fast", "0s", "-5m"}

\* time.ParseDuration, in seconds
ParseDuration(str) ==
    CASE str = "5m"  -> [d |-> 300, err |-> NilErr]
      [] str = "1h"  -> [d |-> 3600, err |-> NilErr]
      [] str = "0s"  -> [d |-> 0, err |-> NilErr]
      [] str = "-5m" -> [d |-> 0 - 300, err |-> NilErr]
      [] OTHER       -> [d |-> 0, err |-> StorageErr]

\* 5 * time.Minute
DefaultInterval == 5 * 60

\* the interval startScheduler passes to time.NewTicker
Interval(str) ==
    IF ParseDuration(str).err # NilErr THEN DefaultInterval
    ELSE ParseDuration(str).d

\* time.NewTicker panics on a duration that is not positive
NewTickerPanics(d) == d <= 0

\* what each collector of a run may return
CollectReturns == {NilErr, StorageErr}

\* before "go startScheduler(...)": nothing parsed, no ticker, no run
SchedInit ==
    [pc |-> "start", intervalStr |-> "", interval |-> 0, pending |-> 0,
     ticks |-> 0, dropped |-> 0, runs |-> << >>]

\* the errors of the run in progress, one per collector called so far
NoRun == << >>

\* startScheduler up to the initial runCollection: parse, default,
\* NewTicker, and the first run starts
SchedStart ==
    /\ sched.pc = "start"
    /\ \E str \in IntervalStrs :
          sched' = [sched EXCEPT
                       !.intervalStr = str,
                       !.interval = Interval(str),
                       !.pc = IF NewTickerPanics(Interval(str))
                              THEN "panicked" ELSE "CollectLogs",
                       !.runs = IF NewTickerPanics(Interval(str))
                                THEN @ ELSE Append(@, NoRun)]
    /\ UNCHANGED <<dbVars, handlerVars, closed, closes, store, cli, shut>>

\* one collector of runCollection: its error is logged and the run goes on
Collect(at, next) ==
    /\ sched.pc = at
    /\ \E e \in CollectReturns :
          sched' = [sched EXCEPT
                       !.pc = next,
                       !.runs[Len(sched.runs)] = Append(@, e)]
    /\ UNCHANGED <<dbVars, handlerVars, closed, closes, store, cli, shut>>

CollectLogs           == Collect("CollectLogs", "CollectMetrics")
CollectMetrics        == Collect("CollectMetrics", "CollectProcessMetrics")
CollectProcessMetrics == Collect("CollectProcessMetrics", "wait")

\* the ticker fires: its channel holds one tick, a tick that finds the
\* channel full is dropped
Tick ==
    /\ sched.pc \notin {"start", "panicked"}
    /\ sched.ticks < MaxTicks
    /\ sched' = [sched EXCEPT
                    !.ticks = @ + 1,
                    !.pending = 1,
                    !.dropped = IF sched.pending = 1 THEN @ + 1 ELSE @]
    /\ UNCHANGED <<dbVars, handlerVars, closed, closes, store, cli, shut>>

\* "for range ticker.C": the loop takes the tick and starts a run
SchedReceive ==
    /\ sched.pc = "wait"
    /\ sched.pending = 1
    /\ sched' = [sched EXCEPT
                    !.pending = 0,
                    !.pc = "CollectLogs",
                    !.runs = Append(@, NoRun)]
    /\ UNCHANGED <<dbVars, handlerVars, closed, closes, store, cli, shut>>

---------------------------------------------------------------------------
(* The VictoriaDB client: InsertMetric, InsertLog, InsertLogs, QueryLogs,
   QueryMetrics *)

\* statuses the backend answers with
Statuses == {200, 204, 404, 500}

\* response bodies: whether the body decodes, and the items it holds
RespBodies ==
    {[decodes |-> FALSE, items |-> <<"x">>],
     [decodes |-> TRUE, items |-> << >>],
     [decodes |-> TRUE, items |-> <<"x">>],
     [decodes |-> TRUE, items |-> <<"x", "y">>]}

\* one HTTP round trip of v.Client: delivered is FALSE when Post or Get
\* returns an error
RoundTrips ==
    [delivered : BOOLEAN, status : Statuses, body : RespBodies]

\* log batches handed to InsertLogs
Batches == {<< >>, <<"l1">>, <<"l1", "l2">>, <<"l2", "l1">>}

\* query texts
StoreQueries == {"q1", "q2"}

NoRequest == [method |-> "", path |-> "", query |-> "", body |-> << >>]

\* json.Marshal of one entry, and the line written to the buffer for it
Marshal(entry) == <<"{", entry, "}">>
JsonLine(entry) == Marshal(entry) \o <<"\n">>

\* mutant: the lines are written last entry first
RECURSIVE JsonLines_Reversed(_)
JsonLines_Reversed(entries) ==
    IF entries = << >> THEN << >>
    ELSE JsonLines_Reversed(Tail(entries)) \o JsonLine(Head(entries))

\* the buffer InsertLogs fills: the lines of the entries, in their order
RECURSIVE JsonLines(_)
JsonLines(entries) ==
    IF entries = << >> THEN << >>
    ELSE JsonLine(Head(entries)) \o JsonLines(Tail(entries))

\* the line InsertMetric builds from name, labels, value and time
MetricLine == <<"name,labels value=v ts", "\n">>

\* the outcome of one operation: what it was given, the request it built,
\* whether the request was sent and delivered, the status it got, and what
\* the operation returned
Outcome(op, input, sent, req, rt, e, result) ==
    [op |-> op, input |-> input,
     sent |-> sent, req |-> IF sent THEN req ELSE NoRequest,
     delivered |-> sent /\ rt.delivered,
     status |-> IF sent /\ rt.delivered THEN rt.status ELSE 0,
     decodes |-> rt.body.decodes,
     err |-> e, result |-> result]

\* mutant: only 204 counts as a successful write
WriteErr_Only204(rt) ==
    IF ~rt.delivered THEN "transport"
    ELSE IF rt.status # 204 THEN "status"
    ELSE NilErr

\* the error of a write: the client's error, or a status other than 204
\* and 200
WriteErr(rt) ==
    IF ~rt.delivered THEN "transport"
    ELSE IF rt.status # 204 /\ rt.status # 200 THEN "status"
    ELSE NilErr

\* the result of a query: the client's error, a status other than 200, a
\* body that does not decode, or the items of the body
QueryErr(rt) ==
    IF ~rt.delivered THEN "transport"
    ELSE IF rt.status # 200 THEN "status"
    ELSE IF ~rt.body.decodes THEN "decode"
    ELSE NilErr

QueryResult(rt) == IF QueryErr(rt) = NilErr THEN rt.body.items ELSE << >>

InsertMetric(rt) ==
    Outcome("InsertMetric", << >>, TRUE,
            [method |-> "POST", path |-> "/write", query |-> "",
             body |-> MetricLine],
            rt, WriteErr(rt), << >>)

\* json.Marshal of the entry may fail: nothing is sent then
InsertLog(marshals, rt) ==
    Outcome("InsertLog", <<"l1">>, marshals,
            [method |-> "POST", path |-> "/insert/jsonline", query |-> "",
             body |-> JsonLine("l1")],
            rt, IF marshals THEN WriteErr(rt) ELSE "marshal", << >>)

\* a LogEntry (strings and an int) always marshals; an empty buffer
\* returns nil before any request is made
InsertLogs(entries, rt) ==
    Outcome("InsertLogs", entries, Len(JsonLines(entries)) # 0,
            [method |-> "POST", path |-> "/insert/jsonline", query |-> "",
             body |-> JsonLines(entries)],
            rt, IF Len(JsonLines(entries)) = 0 THEN NilErr ELSE WriteErr(rt),
            << >>)

QueryLogs(q, rt) ==
    Outcome("QueryLogs", <<q>>, TRUE,
            [method |-> "GET", path |-> "/select/logsql/query", query |-> q,
             body |-> << >>],
            rt, QueryErr(rt), QueryResult(rt))

QueryMetrics(q, rt) ==
    Outcome("QueryMetrics", <<q>>, TRUE,
            [method |-> "GET", path |-> "/api/v1/query", query |-> q,
             body |-> << >>],
            rt, QueryErr(rt), QueryResult(rt))

\* no operation made yet
StoreInit ==
    [op |-> "none", input |-> << >>, sent |-> FALSE, req |-> NoRequest,
     delivered |-> FALSE,
     status |-> 0, decodes |-> FALSE, err |-> NilErr, result |-> << >>]

DoInsertMetric ==
    /\ \E rt \in RoundTrips : store' = InsertMetric(rt)
    /\ UNCHANGED <<dbVars, handlerVars, closed, closes, sched, cli, shut>>

DoInsertLog ==
    /\ \E marshals \in BOOLEAN, rt \in RoundTrips :
          store' = InsertLog(marshals, rt)
    /\ UNCHANGED <<dbVars, handlerVars, closed, closes, sched, cli, shut>>

DoInsertLogs ==
    /\ \E entries \in Batches, rt \in RoundTrips :
          store' = InsertLogs(entries, rt)
    /\ UNCHANGED <<dbVars, handlerVars, closed, closes, sched, cli, shut>>

DoQueryLogs ==
    /\ \E q \in StoreQueries, rt \in RoundTrips :
          store' = QueryLogs(q, rt)
    /\ UNCHANGED <<dbVars, handlerVars, closed, closes, sched, cli, shut>>

DoQueryMetrics ==
    /\ \E q \in StoreQueries, rt \in RoundTrips :
          store' = QueryMetrics(q, rt)
    /\ UNCHANGED <<dbVars, handlerVars, closed, closes, sched, cli, shut>>

---------------------------------------------------------------------------
(* zenith-cli *)

\* values of the --feedback flag ("" when the flag is not given)
FeedbackLiterals == {"", "good", "GOOD", "Good", "bad", "Bad", "ok"}

\* values of the --id flag (0 when the flag is not given)
CliIds == {0, 1, 7}

\* the remaining arguments
CliArgs == {<< >>, <<"recommend">>, <<"how", "many">>}

\* strings.ToLower on the literals above
ToLower(str) ==
    CASE str \in {"good", "GOOD", "Good"} -> "good"
      [] str \in {"bad", "Bad"}           -> "bad"
      [] OTHER                            -> str

\* strings.Join(args, " ")
RECURSIVE Join(_)
Join(args) ==
    IF args = << >> THEN << >>
    ELSE IF Len(args) = 1 THEN args
    ELSE <<Head(args), " ">> \o Join(Tail(args))

\* no request sent
NoCliRequest ==
    [method |-> "", path |-> "", interaction_id |-> 0, feedback |-> 0,
     query |-> << >>]

\* the command line of a run
CliFlags(fb, id, args) == [flags |-> [feedback |-> fb, id |-> id,
                                      args |-> args]]

\* zenith-cli before it is started
CliInit ==
    [flags |-> [feedback |-> "", id |-> 0, args |-> << >>],
     step |-> "none", sent |-> FALSE, req |-> NoCliRequest,
     report |-> "none", shown |-> "", hint |-> 0, exit |-> 0]

\* the run ends with message report and exit code code
CliExit(sent, req, report, shown, hint, code) ==
    [step |-> "exited", sent |-> sent, req |-> req, report |-> report,
     shown |-> shown, hint |-> hint, exit |-> code]

\* the request is out and the run waits for the response
CliWaiting(req) ==
    [step |-> "waiting", sent |-> TRUE, req |-> req, report |-> "none",
     shown |-> "", hint |-> 0, exit |-> 0]

\* mutant: the value sent is the one val is initialised with
FeedbackValue_Zero(fb) == 0

\* the value sent for a --feedback literal that was accepted
FeedbackValue(fb) == IF ToLower(fb) = "good" THEN 1 ELSE 0 - 1

\* the literal is one of the two the CLI accepts
FeedbackAccepted(fb) == ToLower(fb) = "good" \/ ToLower(fb) = "bad"

\* sendFeedback: the request, and the report on the status of the answer
SendFeedback(id, feedback, delivered, status) ==
    LET req == [method |-> "POST", path |-> "/feedback",
                interaction_id |-> id, feedback |-> feedback,
                query |-> << >>]
    IN IF ~delivered
       THEN CliExit(TRUE, req, "Error sending feedback", "", 0, 1)
       ELSE IF status # 200
       THEN CliExit(TRUE, req, "Server returned error", "", 0, 1)
       ELSE CliExit(TRUE, req, "Feedback recorded", "", 0, 0)

\* main up to the point where a request has been sent or the run has ended
CliMain(fb, id, args, delivered, status) ==
    IF fb # ""
    THEN IF id = 0
         THEN CliExit(FALSE, NoCliRequest, "Error: --id is required", "",
                      0, 1)
         ELSE IF ~FeedbackAccepted(fb)
         THEN CliExit(FALSE, NoCliRequest,
                      "Error: --feedback must be 'good' or 'bad'", "", 0, 1)
         ELSE SendFeedback(id, FeedbackValue(fb), delivered, status)
    ELSE IF Len(args) = 0
    THEN CliExit(FALSE, NoCliRequest, "Please provide a query", "", 0, 1)
    ELSE LET req == IF args[1] = "recommend"
                    THEN [method |-> "GET", path |-> "/recommend",
                          interaction_id |-> 0, feedback |-> 0,
                          query |-> << >>]
                    ELSE [method |-> "POST", path |-> "/query",
                          interaction_id |-> 0, feedback |-> 0,
                          query |-> Join(args)]
         IN IF ~delivered
            THEN CliExit(TRUE, req, "Error contacting server", "", 0, 1)
            ELSE CliWaiting(req)

\* json.NewEncoder(w).Encode(QueryResponse{...}): answer is always
\* written, interaction_id and error only when they are not the zero value
EncodeResponse(response) ==
    [fields |-> {"answer"}
                  \cup (IF response.InteractionID # 0
                        THEN {"interaction_id"} ELSE {})
                  \cup (IF response.Error # NoText THEN {"error"} ELSE {}),
     interaction_id |-> response.InteractionID,
     answer |-> response.Answer,
     error |-> response.Error]

\* json.Unmarshal(body, &qResp): a field that is absent keeps its zero
\* value
UnmarshalResponse(body) ==
    [InteractionID |-> IF "interaction_id" \in body.fields
                       THEN body.interaction_id ELSE 0,
     Answer |-> IF "answer" \in body.fields THEN body.answer ELSE "",
     Error |-> IF "error" \in body.fields THEN body.error ELSE NoText]

\* mutant: the error field of the response is not looked at
CliReport_IgnoresError(req, response) ==
    IF response.status # 200
    THEN CliExit(TRUE, req, "Server returned error", "", 0, 1)
    ELSE IF response.ctype # "application/json"
    THEN CliExit(TRUE, req, "Error parsing response", "", 0, 1)
    ELSE LET qResp == UnmarshalResponse(EncodeResponse(response))
         IN CliExit(TRUE, req, "answer", qResp.Answer,
                    qResp.InteractionID, 0)

\* what the CLI does with the response to /query or /recommend: status,
\* parsing, the error field, and then the answer with the feedback hint
CliReport(req, response) ==
    IF response.status # 200
    THEN CliExit(TRUE, req, "Server returned error", "", 0, 1)
    ELSE IF response.ctype # "application/json"
    THEN CliExit(TRUE, req, "Error parsing response", "", 0, 1)
    ELSE LET qResp == UnmarshalResponse(EncodeResponse(response))
         IN IF qResp.Error # NoText
            THEN CliExit(TRUE, req, "Server Error", "", 0, 1)
            ELSE CliExit(TRUE, req, "answer", qResp.Answer,
                         qResp.InteractionID, 0)

\* zenith-cli is started with its flags and arguments
CliStart ==
    /\ cli.step = "none"
    /\ \E fb \in FeedbackLiterals, id \in CliIds, args \in CliArgs,
          delivered \in BOOLEAN, status \in {200, 400, 405, 500} :
          cli' = CliFlags(fb, id, args)
                     @@ CliMain(fb, id, args, delivered, status)
    /\ UNCHANGED <<dbVars, handlerVars, closed, closes, sched, store, shut>>

\* the response of the server to request r reaches the waiting CLI
CliShow(r) ==
    /\ cli.step = "waiting"
    /\ pc[r] = "done"
    /\ kind[r] = cli.req.path
    /\ cli' = [flags |-> cli.flags] @@ CliReport(cli.req, resp[r])
    /\ UNCHANGED <<dbVars, handlerVars, closed, closes, sched, store, shut>>

---------------------------------------------------------------------------
(* Close (package rl) *)

\* Close calls made in a behaviour
MaxCloses == 3

\* what the driver may answer when the open handle is closed
CloseReturns == {NilErr, StorageErr}

\* mutant: closing a closed handle is reported as an error
CloseErr_Again(wasClosed, e) == IF wasClosed THEN StorageErr ELSE e

\* what sqlDB.Close() returns: nil at once on a handle already closed,
\* otherwise what closing the connections returned
CloseErr(wasClosed, e) == IF wasClosed THEN NilErr ELSE e

\* one call of (*DB).Close(): sqlDB is set by InitDB and never reset, so
\* every call goes to sqlDB.Close(), which marks the handle closed
CloseCall ==
    /\ Len(closes) < MaxCloses
    /\ \E e \in CloseReturns :
          closes' = Append(closes, [err |-> CloseErr(closed, e),
                                    wasClosed |-> closed,
                                    rows |-> experiences])
    /\ closed' = TRUE

Close ==
    /\ CloseCall
    /\ UNCHANGED <<dbVars, handlerVars, sched, store, cli, shut>>

---------------------------------------------------------------------------
(* main of the server: startup, signal, shutdown, deferred calls *)

\* mutant: the experience log is closed after the child processes are
\* stopped
Defers_CloseLast ==
    <<"rlDB.Close", "stopProcess(metricsCmd)", "stopProcess(logsCmd)",
      "cancel">>

\* the defer statements main has executed when it starts serving, in the
\* order it executed them
Defers ==
    <<"stopProcess(metricsCmd)", "stopProcess(logsCmd)", "cancel",
      "rlDB.Close">>

\* main is waiting on sigChan; nothing of the shutdown has happened
ShutInit ==
    [pc |-> "serving", defers |-> Defers, timedOut |-> FALSE,
     events |-> << >>, callsAtClose |-> << >>]

\* the process has not exited: its goroutines still run
Alive == shut.pc # "exited"

\* the server still accepts requests
Accepting == shut.pc = "serving"

\* a handler has started and not returned
InFlight(r) == pc[r] \notin {"idle", "done"}

\* SIGINT or SIGTERM arrives: main leaves <-sigChan, creates the context
\* with the 5 second timeout, defers its cancel and calls server.Shutdown
Signal ==
    /\ shut.pc = "serving"
    /\ shut' = [shut EXCEPT !.pc = "Shutdown",
                            !.defers = Append(@, "shutdownCancel")]
    /\ UNCHANGED <<dbVars, handlerVars, closed, closes, sched, store, cli>>

\* server.Shutdown returns: nil once no handler is running, the context's
\* error when 5 seconds have passed with a handler still running
ShutdownReturns ==
    /\ shut.pc = "Shutdown"
    /\ \E timedOut \in BOOLEAN :
          /\ timedOut <=> \E r \in DOMAIN pc : InFlight(r)
          /\ shut' = [shut EXCEPT !.pc = "returning",
                                  !.timedOut = timedOut,
                                  !.events = Append(@, "Shutdown")]
    /\ UNCHANGED <<dbVars, handlerVars, closed, closes, sched, store, cli>>

\* the deferred call on top of the stack
TopDefer == shut.defers[Len(shut.defers)]

\* main returns: the deferred call on top runs; after the last one the
\* process exits
Popped ==
    [shut EXCEPT !.defers = SubSeq(@, 1, Len(@) - 1),
                 !.events = Append(@, TopDefer),
                 !.pc = IF Len(shut.defers) = 1 THEN "exited"
                                                ELSE "returning"]

\* the deferred rlDB.Close()
DeferredClose ==
    /\ shut.pc = "returning"
    /\ TopDefer = "rlDB.Close"
    /\ CloseCall
    /\ shut' = [Popped EXCEPT !.callsAtClose =
                                  [r \in DOMAIN calls |-> Len(calls[r])]]
    /\ UNCHANGED <<dbVars, handlerVars, sched, store, cli>>

\* the other deferred calls: the two cancels and the two stopProcess
DeferredOther ==
    /\ shut.pc = "returning"
    /\ TopDefer # "rlDB.Close"
    /\ shut' = Popped
    /\ UNCHANGED <<dbVars, handlerVars, closed, closes, sched, store, cli>>

RECURSIVE OldRows(_)
OldRows(n) == IF n = 0 THEN << >> ELSE Append(OldRows(n - 1), OldRow(n))

Init ==
    /\ \E n \in 0 .. MaxOldRows :
          /\ experiences = OldRows(n)
          /\ seq = n
    /\ pc = [r \in Reqs |-> "idle"]
    /\ kind = [r \in Reqs |-> "none"]
    /\ query = [r \in Reqs |-> ""]
    /\ attempt = [r \in Reqs |-> 0]
    /\ sqlQuery = [r \in Reqs |-> NoText]
    /\ results = [r \in Reqs |-> ""]
    /\ err = [r \in Reqs |-> NilErr]
    /\ resp = [r \in Reqs |-> NoResponse]
    /\ calls = [r \in Reqs |-> << >>]
    /\ feedbacks = << >>
    /\ closed = FALSE
    /\ closes = << >>
    /\ sched = SchedInit
    /\ store = StoreInit
    /\ cli = CliInit
    /\ shut = ShutInit

Next ==
    \E r \in Reqs :
        \/ QueryDecode(r)
        \/ QueryGenerate(r)
        \/ QueryExecute(r)
        \/ QueryFinalError(r)
        \/ QueryExplain(r)
        \/ HandleRecommend(r)

Spec == Init /\ [][Next]_vars

\* one request of /query or /recommend, and /feedback requests at any time
NextFeedback ==
    \/ \E r \in Reqs :
          \/ QueryDecodeOn(r, FeedbackInputs)
          \/ QueryGenerateOn(r, FeedbackInputs)
          \/ QueryExecuteOn(r, FeedbackInputs)
          \/ QueryFinalErrorOn(r, FeedbackInputs)
          \/ QueryExplainOn(r, FeedbackInputs)
          \/ HandleRecommendOn(r, FeedbackInputs)
    \/ HandleFeedbackOn(FeedbackInputs)

SpecFeedback == Init /\ [][NextFeedback]_vars

\* one request and Close calls at any time
NextClose ==
    \/ \E r \in Reqs :
          \/ QueryDecodeOn(r, SmallInputs)
          \/ QueryGenerateOn(r, SmallInputs)
          \/ QueryExecuteOn(r, SmallInputs)
          \/ QueryFinalErrorOn(r, SmallInputs)
          \/ QueryExplainOn(r, SmallInputs)
          \/ HandleRecommendOn(r, SmallInputs)
    \/ Close

SpecClose == Init /\ [][NextClose]_vars

\* one request whose collaborator calls all return: the handler goroutine
\* keeps being scheduled until it has returned
NextLive ==
    \E r \in Reqs :
        \/ QueryDecodeOn(r, SmallInputs)
        \/ QueryGenerateOn(r, SmallInputs)
        \/ QueryExecuteOn(r, SmallInputs)
        \/ QueryFinalErrorOn(r, SmallInputs)
        \/ QueryExplainOn(r, SmallInputs)
        \/ HandleRecommendOn(r, SmallInputs)

SpecLive == Init /\ [][NextLive]_vars /\ WF_vars(NextLive)

\* one request served, and one run of zenith-cli
NextCli ==
    \/ \E r \in Reqs :
          \/ QueryDecodeOn(r, SmallInputs)
          \/ QueryGenerateOn(r, SmallInputs)
          \/ QueryExecuteOn(r, SmallInputs)
          \/ QueryFinalErrorOn(r, SmallInputs)
          \/ QueryExplainOn(r, SmallInputs)
          \/ HandleRecommendOn(r, SmallInputs)
          \/ CliShow(r)
    \/ CliStart

SpecCli == Init /\ [][NextCli]_vars

\* one request served while main goes from serving to its exit: no
\* request is accepted once Shutdown has been called, and a handler runs
\* on as long as the process lives
NextShutdown ==
    \/ \E r \in Reqs :
          \/ Accepting /\ QueryDecodeOn(r, SmallInputs)
          \/ Alive /\ QueryGenerateOn(r, SmallInputs)
          \/ Alive /\ QueryExecuteOn(r, SmallInputs)
          \/ Alive /\ QueryFinalErrorOn(r, SmallInputs)
          \/ Alive /\ QueryExplainOn(r, SmallInputs)
          \/ Accepting /\ HandleRecommendOn(r, SmallInputs)
    \/ Signal
    \/ ShutdownReturns
    \/ DeferredClose
    \/ DeferredOther

SpecShutdown == Init /\ [][NextShutdown]_vars

\* the scheduler goroutine and its ticker
NextSched ==
    \/ SchedStart
    \/ CollectLogs
    \/ CollectMetrics
    \/ CollectProcessMetrics
    \/ Tick
    \/ SchedReceive

SpecSched == Init /\ [][NextSched]_vars

\* the operations of the VictoriaDB client, in any order
NextStore ==
    \/ DoInsertMetric
    \/ DoInsertLog
    \/ DoInsertLogs
    \/ DoQueryLogs
    \/ DoQueryMetrics

SpecStore == Init /\ [][NextStore]_vars

\* requests served concurrently
ReqsConc == {"r1", "r2"}

\* what request r sends and what its collaborators return to it: every
\* text names the request, so that a value held for one request is told
\* from the value held for the other
ConcPrompt(r) == "p-" \o r
ConcText(r)   == IF r = "r1" THEN TextLogQ ELSE TextMetricQ
ConcRows(r)   == "rows-" \o r
ConcAnswer(r) == "a-" \o r
ConcErr(r)    == "e-" \o r

ConcInputs(r) ==
    [SmallInputs EXCEPT
        !.Bodies       = {[ok |-> FALSE, Query |-> ""],
                          [ok |-> TRUE, Query |-> ConcPrompt(r)]},
        !.GenReturns   = {[text |-> ConcText(r), err |-> NilErr],
                          [text |-> NoText, err |-> ConcErr(r)]},
        !.StoreReturns = {[text |-> ConcRows(r), err |-> NilErr],
                          [text |-> "", err |-> ConcErr(r)]},
        !.TextReturns  = {[text |-> ConcAnswer(r), err |-> NilErr],
                          [text |-> "", err |-> ConcErr(r)]}]

InitConc ==
    /\ \E n \in 0 .. MaxOldRows :
          /\ experiences = OldRows(n)
          /\ seq = n
    /\ pc = [r \in ReqsConc |-> "idle"]
    /\ kind = [r \in ReqsConc |-> "none"]
    /\ query = [r \in ReqsConc |-> ""]
    /\ attempt = [r \in ReqsConc |-> 0]
    /\ sqlQuery = [r \in ReqsConc |-> NoText]
    /\ results = [r \in ReqsConc |-> ""]
    /\ err = [r \in ReqsConc |-> NilErr]
    /\ resp = [r \in ReqsConc |-> NoResponse]
    /\ calls = [r \in ReqsConc |-> << >>]
    /\ feedbacks = << >>
    /\ closed = FALSE
    /\ closes = << >>
    /\ sched = SchedInit
    /\ store = StoreInit
    /\ cli = CliInit
    /\ shut = ShutInit

\* the handlers of the requests run interleaved, one step at a time
NextConc ==
    \E r \in ReqsConc :
        \/ QueryDecodeOn(r, ConcInputs(r))
        \/ QueryGenerateOn(r, ConcInputs(r))
        \/ QueryExecuteOn(r, ConcInputs(r))
        \/ QueryFinalErrorOn(r, ConcInputs(r))
        \/ QueryExplainOn(r, ConcInputs(r))
        \/ HandleRecommendOn(r, ConcInputs(r))

SpecConc == InitConc /\ [][NextConc]_vars

---------------------------------------------------------------------------
(* Reading a run off the state *)

Range(f) == {f[i] : i \in DOMAIN f}

StoreOps == {"QueryLogs", "QueryMetrics"}

\* positions in the call trace of request r, by callee
GenAt(r)     == {i \in DOMAIN calls[r] : calls[r][i].fn = "GenerateSQL"}
StoreAt(r)   == {i \in DOMAIN calls[r] : calls[r][i].fn \in StoreOps}
ExplainAt(r) == {i \in DOMAIN calls[r] : calls[r][i].fn = "ExplainResults"}
LogAt(r)     == {i \in DOMAIN calls[r] : calls[r][i].fn = "LogExperience"}

Failed(c) == c.err # NilErr

\* positions in the table of the rows request r wrote: those whose id a
\* LogExperience call of r returned
RowsWritten(r) ==
    {i \in DOMAIN experiences :
        \E j \in LogAt(r) : calls[r][j].id = experiences[i].id}

\* the row a successful LogExperience call c left is in the table
RowOfCall(c) ==
    \E i \in DOMAIN experiences :
        /\ experiences[i].id = c.id
        /\ experiences[i].source = c.source
        /\ experiences[i].prompt = c.prompt
        /\ experiences[i].generated_query = c.generated_query
        /\ experiences[i].execution_result = c.execution_result
        /\ \A k \in DOMAIN experiences : experiences[k].id = c.id => k = i

\* a failed LogExperience call returned 0 and no row has that id
NoRowOfCall(c) == c.id = 0 /\ \A i \in DOMAIN experiences : experiences[i].id # 0

Wrote(c) == c.id # 0

LastCall(r) == calls[r][Len(calls[r])]

QueryRun(r)  == kind[r] = "/query" /\ attempt[r] >= 1
QueryDone(r) == QueryRun(r) /\ pc[r] = "done"

IsJSON(r) == resp[r].ctype = "application/json"

\* the run answered with an explanation / with an error message
Succeeded(r) == QueryDone(r) /\ IsJSON(r) /\ resp[r].Error = NoText
Errored(r)   == QueryDone(r) /\ IsJSON(r) /\ resp[r].Error # NoText

HasResultPrefix(row, lit) == row.execution_result[1] = lit

SuccessRows(r) ==
    {i \in RowsWritten(r) : experiences[i].execution_result = <<"Success">>}

---------------------------------------------------------------------------
(* C1 *)

\* C1 as stated: every successful /query run wrote exactly one row with
\* execution_result "Success", and the response's interaction_id is its id.
C1_AsStated ==
    \A r \in Reqs :
        Succeeded(r) =>
            /\ Cardinality(SuccessRows(r)) = 1
            /\ \A i \in SuccessRows(r) :
                   resp[r].InteractionID = experiences[i].id

\* C1 (amended): a successful /query run ends with one LogExperience call
\* recording "Success" for the executed query; when that write succeeds the
\* run has exactly one "Success" row and interaction_id is its id; when it
\* fails the run has no "Success" row and interaction_id is 0.
C1_SuccessRow ==
    \A r \in Reqs :
        Succeeded(r) =>
            LET c == LastCall(r)
            IN /\ c.fn = "LogExperience"
               /\ c.execution_result = <<"Success">>
               /\ c.source = "query" /\ c.prompt = query[r]
               /\ c.generated_query = sqlQuery[r]
               /\ resp[r].InteractionID = c.id
               /\ IF Wrote(c)
                  THEN /\ RowOfCall(c)
                       /\ Cardinality(SuccessRows(r)) = 1
                       /\ \A i \in SuccessRows(r) :
                              experiences[i].id = resp[r].InteractionID
                  ELSE /\ NoRowOfCall(c)
                       /\ SuccessRows(r) = {}

\* a successful run whose "Success" row follows an older row and an
\* "Execution Error" row of the same run
C1_Witness ==
    \E r \in Reqs :
        /\ Succeeded(r)
        /\ Cardinality(RowsWritten(r)) = 2
        /\ resp[r].InteractionID = 3

---------------------------------------------------------------------------
(* C2 *)

\* execution failed on every one of the three attempts of the run
AllExecutionsFailed(r) ==
    /\ QueryDone(r)
    /\ Cardinality(StoreAt(r)) = 3
    /\ \A i \in StoreAt(r) : Failed(calls[r][i])

AllWritesSucceeded(r) == \A j \in LogAt(r) : Wrote(calls[r][j])

\* rows of the run that record an execution failure
ExecutionFailureRows(r) ==
    {i \in RowsWritten(r) :
        \/ HasResultPrefix(experiences[i], "Execution Error: ")
        \/ HasResultPrefix(experiences[i], "Final Execution Error: ")}

\* C2 as stated, for the runs in which every log write succeeded: when
\* execution fails on all 3 attempts the run logs 3 execution-failure rows,
\* the last prefixed "Final Execution Error:".
C2_AsStated ==
    \A r \in Reqs :
        AllExecutionsFailed(r) /\ AllWritesSucceeded(r) =>
            /\ Cardinality(ExecutionFailureRows(r)) = 3
            /\ \E i \in ExecutionFailureRows(r) :
                   /\ HasResultPrefix(experiences[i], "Final Execution Error: ")
                   /\ \A k \in ExecutionFailureRows(r) : k <= i

\* C2 (amended): when execution fails on all 3 attempts the run makes 4
\* LogExperience calls for execution failures: one "Execution Error: <err>"
\* after each failed execution and a last "Final Execution Error: <err>"
\* with the third attempt's error; each call that succeeds leaves its row,
\* so a run whose writes all succeed has 4 such rows, the "Final" one last.
C2_FourRows ==
    \A r \in Reqs :
        AllExecutionsFailed(r) =>
            LET logs  == SelectSeq(calls[r],
                                   LAMBDA c : c.fn = "LogExperience")
                execs == SelectSeq(calls[r], LAMBDA c : c.fn \in StoreOps)
            IN /\ Len(logs) = 4
               /\ \A a \in 1 .. 3 :
                      /\ logs[a].execution_result =
                             <<"Execution Error: ", execs[a].err>>
                      /\ logs[a].generated_query = execs[a].generated
               /\ logs[4].execution_result =
                      <<"Final Execution Error: ", execs[3].err>>
               /\ LastCall(r) = logs[4]
               /\ \A k \in 1 .. 4 :
                      IF Wrote(logs[k]) THEN RowOfCall(logs[k])
                                        ELSE NoRowOfCall(logs[k])
               /\ \A k \in 1 .. 3 :
                      Wrote(logs[k]) /\ Wrote(logs[k + 1]) =>
                          logs[k].id < logs[k + 1].id
               /\ Cardinality(ExecutionFailureRows(r)) =
                      Cardinality({k \in 1 .. 4 : Wrote(logs[k])})
               /\ AllWritesSucceeded(r) =>
                      Cardinality(ExecutionFailureRows(r)) = 4

\* three failed executions with different errors, every write succeeding
C2_Witness ==
    \E r \in Reqs :
        /\ AllExecutionsFailed(r)
        /\ AllWritesSucceeded(r)
        /\ Cardinality(ExecutionFailureRows(r)) = 4
        /\ \E i, j \in StoreAt(r) : calls[r][i].err # calls[r][j].err

---------------------------------------------------------------------------
(* C3 *)

\* generation failed on every one of the three attempts of the run
AllGenerationsFailed(r) ==
    /\ QueryDone(r)
    /\ Cardinality(GenAt(r)) = 3
    /\ \A i \in GenAt(r) : Failed(calls[r][i])

\* a generation failure before the last attempt is followed by the next
\* GenerateSQL call, not by a log write
InterimGenerationFailureUnlogged(r) ==
    \A i \in GenAt(r) :
        Failed(calls[r][i]) /\ calls[r][i].attempt < 3 =>
            (i < Len(calls[r]) => calls[r][i + 1].fn = "GenerateSQL")

\* C3 as stated: interim generation failures write no row, and a run whose
\* 3 GenerateSQL calls all fail writes exactly one row, with generated_query
\* "" and source "query", whose id the error response carries.
C3_AsStated ==
    \A r \in Reqs :
        /\ QueryRun(r) => InterimGenerationFailureUnlogged(r)
        /\ AllGenerationsFailed(r) =>
               /\ Cardinality(RowsWritten(r)) = 1
               /\ Errored(r)
               /\ \A i \in RowsWritten(r) :
                      /\ experiences[i].generated_query = NoText
                      /\ experiences[i].source = "query"
                      /\ resp[r].InteractionID = experiences[i].id

\* C3 (amended): interim generation failures make no log write; a run whose
\* 3 GenerateSQL calls all fail makes exactly one LogExperience call, with
\* generated_query "" and source "query", and answers with an error and the
\* id that call returned: the id of the one row the run wrote when the write
\* succeeds, 0 with no row written when it fails.
C3_GenerationFailure ==
    \A r \in Reqs :
        /\ QueryRun(r) => InterimGenerationFailureUnlogged(r)
        /\ AllGenerationsFailed(r) =>
               LET c == LastCall(r)
               IN /\ LogAt(r) = {Len(calls[r])}
                  /\ c.generated_query = NoText
                  /\ c.source = "query"
                  /\ c.prompt = query[r]
                  /\ Errored(r)
                  /\ resp[r].InteractionID = c.id
                  /\ IF Wrote(c)
                     THEN /\ RowOfCall(c)
                          /\ Cardinality(RowsWritten(r)) = 1
                     ELSE /\ NoRowOfCall(c)
                          /\ RowsWritten(r) = {}

\* three failed generations, the one write succeeding after an older row
C3_Witness ==
    \E r \in Reqs :
        /\ AllGenerationsFailed(r)
        /\ Cardinality(RowsWritten(r)) = 1
        /\ resp[r].InteractionID = 2
        /\ experiences[2].generated_query = NoText

---------------------------------------------------------------------------
(* C4 *)

\* nothing of a later attempt follows call i of the run
NoLaterAttempt(r, i) ==
    \A j \in GenAt(r) \cup StoreAt(r) : j <= i

\* C4 as stated: at most 3 GenerateSQL calls and 3 store queries per run;
\* when execution first succeeds on attempt k the run has made exactly k
\* GenerateSQL calls and exactly k store queries and starts no later attempt.
C4_AsStated ==
    \A r \in Reqs :
        QueryRun(r) =>
            /\ Cardinality(GenAt(r)) <= 3
            /\ Cardinality(StoreAt(r)) <= 3
            /\ \A i \in StoreAt(r) :
                   ~Failed(calls[r][i]) =>
                       /\ Cardinality(GenAt(r)) = calls[r][i].attempt
                       /\ Cardinality(StoreAt(r)) = calls[r][i].attempt
                       /\ NoLaterAttempt(r, i)

\* C4 (amended): at most 3 GenerateSQL calls and 3 store queries per run;
\* when execution first succeeds on attempt k the run has made exactly k
\* GenerateSQL calls and one store query for each of them that returned a
\* text, so at most k (fewer when an earlier attempt failed in generation),
\* and it starts no later attempt.
C4_AttemptCounts ==
    \A r \in Reqs :
        QueryRun(r) =>
            /\ Cardinality(GenAt(r)) <= 3
            /\ Cardinality(StoreAt(r)) <= 3
            /\ \A i \in GenAt(r) :
                   calls[r][i].attempt = Cardinality({j \in GenAt(r) : j <= i})
            /\ \A i \in StoreAt(r) :
                   ~Failed(calls[r][i]) =>
                       LET k == calls[r][i].attempt
                       IN /\ k \in 1 .. 3
                          /\ Cardinality(GenAt(r)) = k
                          /\ Cardinality(StoreAt(r)) =
                                k - Cardinality({j \in GenAt(r) :
                                                    Failed(calls[r][j])})
                          /\ Cardinality(StoreAt(r)) <= k
                          /\ \A j \in StoreAt(r) :
                                 j # i => Failed(calls[r][j])
                          /\ NoLaterAttempt(r, i)

\* execution first succeeds on attempt 3, after a failed generation and a
\* failed execution, and the run has gone on to its end
C4_Witness ==
    \E r \in Reqs :
        /\ QueryDone(r)
        /\ Cardinality(GenAt(r)) = 3
        /\ Cardinality(StoreAt(r)) = 2
        /\ \E i \in StoreAt(r) :
               ~Failed(calls[r][i]) /\ calls[r][i].attempt = 3

---------------------------------------------------------------------------
(* C5 *)

\* the text begins with the four characters L, O, G, :
BeginsWithLOG(t) ==
    Len(t) >= 4 /\ t[1] = "L" /\ t[2] = "O" /\ t[3] = "G" /\ t[4] = ":"

\* the store query each generated text must lead to
ExpectedQuery(t) ==
    CASE t = TextLogQ       -> <<"q">>
      [] t = TextLowerLogQ  -> <<"l", "o", "g", ":", " ", "q">>
      [] t = TextSpaceLogQ  -> <<"L", "O", "G", ":", "q">>
      [] t = TextMetricQ    -> <<"q">>
      [] t = TextMetricLogQ -> <<"L", "O", "G", ":", "q">>
      [] t = TextQ          -> <<"q", " ", "q">>

\* C5: a generated text beginning with the exact prefix "LOG:" is run by
\* QueryLogs, any other by QueryMetrics, on the text without its "LOG:" /
\* leading "METRIC:" prefix and without surrounding whitespace; an attempt
\* whose generation returned a text makes exactly one store call, and no
\* store call is made without one.
C5_PrefixDispatch ==
    \A r \in Reqs :
        QueryRun(r) =>
            /\ \A i \in GenAt(r) :
                   ~Failed(calls[r][i]) /\ i < Len(calls[r]) =>
                       LET g == calls[r][i]
                           c == calls[r][i + 1]
                       IN /\ c.fn = IF BeginsWithLOG(g.text)
                                    THEN "QueryLogs" ELSE "QueryMetrics"
                          /\ c.q = ExpectedQuery(g.text)
                          /\ c.generated = g.text
                          /\ c.attempt = g.attempt
            /\ \A j \in StoreAt(r) :
                   /\ j > 1
                   /\ calls[r][j - 1].fn = "GenerateSQL"
                   /\ ~Failed(calls[r][j - 1])
            /\ \A a \in 1 .. 3 :
                   Cardinality({j \in StoreAt(r) : calls[r][j].attempt = a})
                     = IF \E i \in GenAt(r) :
                              /\ calls[r][i].attempt = a
                              /\ ~Failed(calls[r][i])
                              /\ i < Len(calls[r])
                       THEN 1 ELSE 0

\* one run in which "LOG: q\n" went to QueryLogs as "q" and "log: q" went
\* to QueryMetrics unchanged
C5_Witness ==
    \E r \in Reqs :
        \E i, j \in StoreAt(r) :
            /\ calls[r][i].generated = TextLogQ
            /\ calls[r][i].fn = "QueryLogs"
            /\ calls[r][i].q = <<"q">>
            /\ calls[r][j].generated = TextLowerLogQ
            /\ calls[r][j].fn = "QueryMetrics"
            /\ calls[r][j].q = TextLowerLogQ

---------------------------------------------------------------------------
(* C6 *)

\* ExplainResults is called at most once, right after a store query that
\* succeeded
ExplainedOnceAfterSuccess(r) ==
    /\ Cardinality(ExplainAt(r)) <= 1
    /\ \A i \in ExplainAt(r) :
           /\ i > 1
           /\ calls[r][i - 1].fn \in StoreOps
           /\ ~Failed(calls[r][i - 1])

ExplainFailureRows(r) ==
    {i \in RowsWritten(r) :
        HasResultPrefix(experiences[i], "Failed to explain results: ")}

\* C6 as stated: ExplainResults is called at most once per run and only
\* after a successful execution; when it fails the run writes exactly one
\* row prefixed "Failed to explain results:" and answers with an error
\* carrying that row's id.
C6_AsStated ==
    \A r \in Reqs :
        QueryRun(r) =>
            /\ ExplainedOnceAfterSuccess(r)
            /\ \A i \in ExplainAt(r) :
                   Failed(calls[r][i]) =>
                       /\ Cardinality(ExplainFailureRows(r)) = 1
                       /\ Errored(r)
                       /\ \A k \in ExplainFailureRows(r) :
                              resp[r].InteractionID = experiences[k].id

\* C6 (amended): ExplainResults is called at most once per run and only
\* after a successful execution; when it fails it is not retried, the run
\* makes exactly one LogExperience call with execution_result "Failed to
\* explain results: <err>" and answers with an error carrying the id that
\* call returned: the id of the one such row when the write succeeds, 0
\* with no such row when it fails.
C6_ExplainFailure ==
    \A r \in Reqs :
        QueryRun(r) =>
            /\ ExplainedOnceAfterSuccess(r)
            /\ \A i \in ExplainAt(r) :
                   Failed(calls[r][i]) =>
                       LET c == LastCall(r)
                       IN /\ Len(calls[r]) = i + 1
                          /\ c.fn = "LogExperience"
                          /\ c.execution_result =
                                 <<"Failed to explain results: ",
                                   calls[r][i].err>>
                          /\ c.generated_query = calls[r][i].sql
                          /\ Errored(r)
                          /\ resp[r].InteractionID = c.id
                          /\ IF Wrote(c)
                             THEN /\ RowOfCall(c)
                                  /\ Cardinality(ExplainFailureRows(r)) = 1
                             ELSE /\ NoRowOfCall(c)
                                  /\ ExplainFailureRows(r) = {}

\* ExplainResults failed after an execution that succeeded on attempt 2,
\* and the row was written
C6_Witness ==
    \E r \in Reqs :
        \E i \in ExplainAt(r) :
            /\ Failed(calls[r][i])
            /\ calls[r][i - 1].attempt = 2
            /\ Cardinality(ExplainFailureRows(r)) = 1
            /\ resp[r].InteractionID = seq

---------------------------------------------------------------------------
(* C7 *)

\* call i of the run is followed at once by a LogExperience call
LoggedNext(r, i) ==
    i < Len(calls[r]) /\ calls[r][i + 1].fn = "LogExperience"

\* C7 as stated, for the runs in which every log write succeeded: the run
\* ends with the one row of its terminal outcome, and every attempt before
\* the last that failed, in generation or in execution, left a row of its
\* own.
C7_AsStated ==
    \A r \in Reqs :
        QueryDone(r) /\ AllWritesSucceeded(r) =>
            /\ LastCall(r).fn = "LogExperience"
            /\ RowOfCall(LastCall(r))
            /\ \A i \in GenAt(r) \cup StoreAt(r) :
                   Failed(calls[r][i]) /\ calls[r][i].attempt < 3 =>
                       LoggedNext(r, i) /\ RowOfCall(calls[r][i + 1])

\* C7 (amended): a finished run has made one LogExperience call for its
\* terminal outcome (its last call) and one after each failed execution,
\* and no other: an attempt before the last that failed in generation is
\* not logged.  Each call that succeeds appends exactly one row, each call
\* that fails appends none.
C7_RowPerOutcome ==
    \A r \in Reqs :
        QueryDone(r) =>
            LET failedExec == {i \in StoreAt(r) : Failed(calls[r][i])}
            IN /\ LastCall(r).fn = "LogExperience"
               /\ Len(calls[r]) - 1 \notin failedExec
               /\ \A i \in failedExec :
                      /\ LoggedNext(r, i)
                      /\ HasResultPrefix(calls[r][i + 1], "Execution Error: ")
               /\ \A i \in GenAt(r) :
                      Failed(calls[r][i]) /\ calls[r][i].attempt < 3 =>
                          ~LoggedNext(r, i)
               /\ LogAt(r) = {i + 1 : i \in failedExec} \cup {Len(calls[r])}
               /\ \A j \in LogAt(r) :
                      IF Wrote(calls[r][j]) THEN RowOfCall(calls[r][j])
                                            ELSE NoRowOfCall(calls[r][j])
               /\ Cardinality(RowsWritten(r)) =
                      Cardinality({j \in LogAt(r) : Wrote(calls[r][j])})

\* a finished run: generation failed on attempt 1 (no row), execution
\* failed on attempt 2 (a row), attempt 3 succeeded (the terminal row)
C7_Witness ==
    \E r \in Reqs :
        /\ Succeeded(r)
        /\ Failed(calls[r][1]) /\ calls[r][1].fn = "GenerateSQL"
        /\ Cardinality(StoreAt(r)) = 2
        /\ Cardinality(RowsWritten(r)) = 2

---------------------------------------------------------------------------
(* C8 *)

\* C8 as stated: every failed store query appends a row with source
\* "query", the prompt, the generated text and "Execution Error: <err>";
\* on the third attempt a "Final Execution Error: <err>" row follows it and
\* the error response carries the id of that second row.
C8_AsStated ==
    \A r \in Reqs :
        QueryRun(r) =>
            \A i \in StoreAt(r) :
                Failed(calls[r][i]) =>
                    /\ LoggedNext(r, i)
                    /\ Wrote(calls[r][i + 1])
                    /\ RowOfCall(calls[r][i + 1])
                    /\ calls[r][i].attempt = 3 /\ pc[r] = "done" =>
                           /\ Wrote(calls[r][i + 2])
                           /\ RowOfCall(calls[r][i + 2])
                           /\ calls[r][i + 1].id < calls[r][i + 2].id
                           /\ resp[r].InteractionID = calls[r][i + 2].id

\* C8 (amended): every failed store query, on any attempt, is followed by
\* a LogExperience call with source "query", the prompt, the generated text
\* and "Execution Error: <err>"; on the third attempt a second call with
\* "Final Execution Error: <err>" follows and the error response carries
\* the id that second call returned.  Each of the calls appends its row
\* when the write succeeds (the second after the first) and none when it
\* fails, the response then carrying id 0.
C8_ExecutionFailure ==
    \A r \in Reqs :
        QueryRun(r) =>
            \A i \in StoreAt(r) :
                Failed(calls[r][i]) =>
                    LET c == calls[r][i + 1]
                    IN /\ LoggedNext(r, i)
                       /\ c.source = "query"
                       /\ c.prompt = query[r]
                       /\ c.generated_query = calls[r][i].generated
                       /\ c.execution_result =
                              <<"Execution Error: ", calls[r][i].err>>
                       /\ IF Wrote(c) THEN RowOfCall(c) ELSE NoRowOfCall(c)
                       /\ calls[r][i].attempt = 3 =>
                              pc[r] \in {"final", "done"}
                       /\ calls[r][i].attempt = 3 /\ pc[r] = "done" =>
                              LET f == calls[r][i + 2]
                              IN /\ Len(calls[r]) = i + 2
                                 /\ f.fn = "LogExperience"
                                 /\ f.source = "query"
                                 /\ f.prompt = query[r]
                                 /\ f.generated_query = calls[r][i].generated
                                 /\ f.execution_result =
                                        <<"Final Execution Error: ",
                                          calls[r][i].err>>
                                 /\ IF Wrote(f) THEN RowOfCall(f)
                                                ELSE NoRowOfCall(f)
                                 /\ Wrote(c) /\ Wrote(f) => c.id < f.id
                                 /\ Errored(r)
                                 /\ resp[r].InteractionID = f.id

\* the third execution failed, both of its rows were written and the
\* response carries the id of the second
C8_Witness ==
    \E r \in Reqs :
        \E i \in StoreAt(r) :
            /\ Failed(calls[r][i]) /\ calls[r][i].attempt = 3
            /\ pc[r] = "done"
            /\ Wrote(calls[r][i + 1]) /\ Wrote(calls[r][i + 2])
            /\ resp[r].InteractionID = calls[r][i + 1].id + 1

---------------------------------------------------------------------------
(* C9 *)

\* C9: ExplainResults is called with the user's query and with the generated
\* text and the results of the attempt whose execution succeeded, the last
\* of the run, every earlier execution having failed; the response of a
\* successful run is the explanation it returned and the "Success" row
\* records that same generated text.
C9_ExplainsSuccessfulAttempt ==
    \A r \in Reqs :
        QueryRun(r) =>
            \A i \in ExplainAt(r) :
                LET e == calls[r][i]
                    s == calls[r][i - 1]
                    g == calls[r][i - 2]
                IN /\ i > 2
                   /\ s.fn \in StoreOps /\ ~Failed(s)
                   /\ g.fn = "GenerateSQL" /\ g.attempt = s.attempt
                   /\ \A j \in StoreAt(r) :
                          j <= i - 1 /\ (j < i - 1 => Failed(calls[r][j]))
                   /\ e.userQuery = query[r]
                   /\ e.sql = g.text
                   /\ e.results = s.text
                   /\ Succeeded(r) =>
                          /\ ~Failed(e)
                          /\ resp[r].Answer = e.text
                          /\ LastCall(r).generated_query = g.text
                          /\ \A k \in SuccessRows(r) :
                                 experiences[k].generated_query = g.text

\* attempt 1 failed in execution on one text, attempt 2 succeeded on
\* another with rows, and the run answered "a1" and wrote its "Success" row
C9_Witness ==
    \E r \in Reqs :
        /\ Succeeded(r)
        /\ Len(calls[r]) = 7
        /\ Failed(calls[r][2]) /\ calls[r][2].generated = TextLogQ
        /\ calls[r][5].fn = "QueryMetrics" /\ calls[r][5].text = "rows"
        /\ calls[r][6].sql = TextMetricQ /\ calls[r][6].results = "rows"
        /\ resp[r].Answer = "a1"
        /\ \E k \in SuccessRows(r) :
               experiences[k].generated_query = TextMetricQ

---------------------------------------------------------------------------
(* C10 *)

AnswerSet(r) == resp[r].Answer # ""
ErrorSet(r)  == resp[r].Error # NoText

\* the last provider call of the request (ExplainResults,
\* GenerateRecommendations or GenerateSQL)
ProviderAt(r) ==
    {i \in DOMAIN calls[r] :
        calls[r][i].fn \in {"GenerateSQL", "ExplainResults",
                            "GenerateRecommendations"}}

LastProviderCall(r) ==
    calls[r][CHOOSE i \in ProviderAt(r) : \A j \in ProviderAt(r) : j <= i]

\* C10 as stated: every JSON response of /query and /recommend has exactly
\* one of answer and error non-empty.
C10_AsStated ==
    \A r \in Reqs :
        IsJSON(r) => (AnswerSet(r) /\ ~ErrorSet(r)) \/ (~AnswerSet(r) /\ ErrorSet(r))

\* C10 (amended): no JSON response of /query and /recommend has both answer
\* and error non-empty.  A response to a failure has a non-empty error and
\* an empty answer; a response to a success has an empty error and the
\* provider's text as answer, so exactly one of the two is non-empty unless
\* the provider returned the empty text without an error, when both are
\* empty.
C10_AnswerXorError ==
    \A r \in Reqs :
        IsJSON(r) =>
            LET p == LastProviderCall(r)
            IN /\ ~(AnswerSet(r) /\ ErrorSet(r))
               /\ Failed(p) => ErrorSet(r) /\ ~AnswerSet(r)
               /\ ~Failed(p) /\ p.fn # "GenerateSQL" =>
                      ~ErrorSet(r) /\ resp[r].Answer = p.text
               /\ ~Failed(p) /\ p.fn = "GenerateSQL" =>
                      ErrorSet(r) /\ ~AnswerSet(r)
               /\ (~AnswerSet(r) /\ ~ErrorSet(r)) =>
                      ~Failed(p) /\ p.text = ""

\* a /recommend error response carrying the id of its row
C10_Witness ==
    \E r \in Reqs :
        /\ kind[r] = "/recommend"
        /\ IsJSON(r)
        /\ ErrorSet(r) /\ ~AnswerSet(r)
        /\ resp[r].InteractionID # 0

---------------------------------------------------------------------------
(* C11 *)

\* request r is answered with a JSON response in this step
Answers(r) == ~IsJSON(r) /\ IsJSON(r)'

\* this step appends exactly one row to the table and changes no other
RowAppended ==
    /\ Len(experiences') = Len(experiences) + 1
    /\ SubSeq(experiences', 1, Len(experiences)) = experiences

NewRow == experiences'[Len(experiences')]

\* C11: in the step that answers a /query or /recommend request with a JSON
\* response, the terminal LogExperience call either writes its row, and then
\* interaction_id is that row's non-zero id, or fails and writes nothing,
\* and then interaction_id is 0 (omitted).
C11_Step ==
    \A r \in DOMAIN resp :
        Answers(r) =>
            LET c == LastCall(r)'
            IN /\ c.fn = "LogExperience"
               /\ resp'[r].InteractionID = c.id
               /\ IF c.id # 0
                  THEN /\ RowAppended
                       /\ NewRow.id = c.id
                       /\ \A i \in DOMAIN experiences :
                              experiences[i].id # c.id
                  ELSE experiences' = experiences

C11_InteractionId == [][C11_Step]_vars

\* two concurrent requests are answered, one with interaction_id omitted
\* because its last write failed, the other with the id of its row, which
\* follows a row the first request wrote earlier
C11_Witness ==
    \E r1, r2 \in DOMAIN resp :
        /\ IsJSON(r1) /\ resp[r1].InteractionID = 0
        /\ RowsWritten(r1) # {}
        /\ IsJSON(r2) /\ resp[r2].InteractionID # 0
        /\ \E i \in RowsWritten(r1), k \in DOMAIN experiences :
               i < k /\ experiences[k].id = resp[r2].InteractionID

---------------------------------------------------------------------------
(* C12 *)

\* positions in feedbacks of the UpdateFeedback calls on id that succeeded
UpdatedAt(id) ==
    {k \in DOMAIN feedbacks :
        /\ feedbacks[k].called
        /\ feedbacks[k].err = NilErr
        /\ feedbacks[k].InteractionID = id}

Max(S) == CHOOSE m \in S : \A n \in S : n <= m

\* C12: the user_feedback of every row is the value of the most recent
\* successful UpdateFeedback call on the row's id, and 0 when there was none.
C12_LastFeedbackWins ==
    \A i \in DOMAIN experiences :
        LET S == UpdatedAt(experiences[i].id)
        IN experiences[i].user_feedback =
               IF S = {} THEN 0 ELSE feedbacks[Max(S)].Feedback

\* a row the request of this behaviour wrote was given 1 and then -1
C12_Witness ==
    \E r \in Reqs : \E i \in RowsWritten(r) :
        /\ UpdatedAt(experiences[i].id) = {1, 2}
        /\ feedbacks[1].Feedback = 1 /\ feedbacks[2].Feedback = -1
        /\ experiences[i].user_feedback = -1

---------------------------------------------------------------------------
(* C13 *)

\* a /feedback request is served in this step
FeedbackStep == Len(feedbacks') = Len(feedbacks) + 1

\* the request served in this step
Served == feedbacks'[Len(feedbacks')]

HasRow(id) == \E i \in DOMAIN experiences : experiences[i].id = id

\* C13 as stated: an UpdateFeedback call with an id that no row has returns
\* the not-found error and leaves every row unchanged.
C13_AsStated_Step ==
    FeedbackStep /\ Served.called /\ ~HasRow(Served.InteractionID) =>
        /\ Served.err = NotFoundErr(Served.InteractionID)
        /\ experiences' = experiences

C13_AsStated == [][C13_AsStated_Step]_vars

\* C13 (amended): an UpdateFeedback call with an id that no row has returns
\* an error, the not-found error naming the id or the error of the UPDATE
\* statement when that fails first; the handler answers 500; every row is
\* left unchanged.
C13_NotFound_Step ==
    FeedbackStep /\ Served.called /\ ~HasRow(Served.InteractionID) =>
        /\ Served.err \in {NotFoundErr(Served.InteractionID), StorageErr}
        /\ Served.resp = HttpError(500)
        /\ experiences' = experiences

C13_NotFound == [][C13_NotFound_Step]_vars

\* id 2 was not found while the table held row 1 with feedback already
\* given, and that row is as it was
C13_Witness ==
    /\ Len(feedbacks) = 2
    /\ feedbacks[1].InteractionID = 1 /\ feedbacks[1].err = NilErr
    /\ feedbacks[1].Feedback = 1
    /\ feedbacks[2].InteractionID = 2 /\ feedbacks[2].called
    /\ feedbacks[2].err = NotFoundErr(2)
    /\ ~HasRow(2)
    /\ \E i \in DOMAIN experiences :
           experiences[i].id = 1 /\ experiences[i].user_feedback = 1

---------------------------------------------------------------------------
(* C14 *)

\* requests k and l are two /feedback calls with the same id and the same
\* value, the id was that of a row when the first was served, and no
\* UpdateFeedback call on that id came between them
SameFeedbackTwice(k, l) ==
    /\ k < l
    /\ feedbacks[k].called /\ feedbacks[l].called
    /\ feedbacks[k].InteractionID = feedbacks[l].InteractionID
    /\ feedbacks[k].Feedback = feedbacks[l].Feedback
    /\ feedbacks[k].before # {}
    /\ \A j \in DOMAIN feedbacks :
           k < j /\ j < l /\ feedbacks[j].called =>
               feedbacks[j].InteractionID # feedbacks[k].InteractionID

\* C14 as stated: both calls succeed and the row's user_feedback after the
\* second equals its value after the first.
C14_AsStated ==
    \A k, l \in DOMAIN feedbacks :
        SameFeedbackTwice(k, l) =>
            /\ feedbacks[k].resp = FeedbackOK
            /\ feedbacks[l].resp = FeedbackOK
            /\ feedbacks[l].after = feedbacks[k].after

\* C14 (amended): neither call fails with not-found: each succeeds unless
\* the UPDATE statement itself fails, which is answered 500; the row's
\* user_feedback after the second call equals its value after the first,
\* and it is the value sent once either call has succeeded.
C14_Idempotent ==
    \A k, l \in DOMAIN feedbacks :
        SameFeedbackTwice(k, l) =>
            /\ \A j \in {k, l} :
                  \/ /\ feedbacks[j].err = NilErr
                     /\ feedbacks[j].resp = FeedbackOK
                     /\ feedbacks[j].after = {feedbacks[j].Feedback}
                  \/ /\ feedbacks[j].err = StorageErr
                     /\ feedbacks[j].resp = HttpError(500)
                     /\ feedbacks[j].after = feedbacks[j].before
            /\ feedbacks[k].err = NilErr =>
                   feedbacks[l].after = feedbacks[k].after

\* the same value was sent twice for a row the request of this behaviour
\* wrote, and both calls succeeded
C14_Witness ==
    /\ Len(feedbacks) = 2
    /\ SameFeedbackTwice(1, 2)
    /\ feedbacks[1].resp = FeedbackOK /\ feedbacks[2].resp = FeedbackOK
    /\ feedbacks[1].Feedback = -1
    /\ feedbacks[2].before = {-1} /\ feedbacks[2].after = {-1}
    /\ \E r \in Reqs : \E i \in RowsWritten(r) :
           experiences[i].id = feedbacks[1].InteractionID

---------------------------------------------------------------------------
(* C15 *)

\* the LogExperience calls made so far that returned an id: request and
\* position in its call trace
SuccessfulLogs ==
    UNION {{<<r, j>> : j \in {n \in LogAt(r) : Wrote(calls[r][n])}} :
              r \in DOMAIN calls}

\* rows that were in the file when the server started
OldRowsAt == {i \in DOMAIN experiences : experiences[i] = OldRow(i)}

\* C15: under any interleaving of the handlers of concurrent requests,
\* the ids successful LogExperience calls returned are pairwise different,
\* ids increase along the table in insertion order, and every successful
\* call has exactly one row, its own, none lost and none duplicated.
C15_UniqueIncreasingIds ==
    /\ \A p, q \in SuccessfulLogs :
           calls[p[1]][p[2]].id = calls[q[1]][q[2]].id => p = q
    /\ \A i, j \in DOMAIN experiences :
           i < j => experiences[i].id < experiences[j].id
    /\ \A p \in SuccessfulLogs : RowOfCall(calls[p[1]][p[2]])
    /\ \A i \in DOMAIN experiences \ OldRowsAt :
           \E p \in SuccessfulLogs : calls[p[1]][p[2]].id = experiences[i].id
    /\ Len(experiences) =
           Cardinality(OldRowsAt) + Cardinality(SuccessfulLogs)

\* the rows of two concurrent /query requests alternate in the table, and
\* one LogExperience call between them failed
C15_Witness ==
    \E r1, r2 \in DOMAIN calls :
        /\ r1 # r2
        /\ \E i \in RowsWritten(r1), j \in RowsWritten(r2),
              k \in RowsWritten(r1) : i < j /\ j < k
        /\ \E j \in LogAt(r2) : ~Wrote(calls[r2][j])

---------------------------------------------------------------------------
(* C16 *)

\* the columns of a row that are set at insertion
Inserted(row) ==
    <<row.id, row.source, row.prompt, row.generated_query,
      row.execution_result>>

\* C16: no step removes a row or changes the id, source, prompt,
\* generated_query or execution_result of a row; a step that serves a
\* /feedback request adds no row and changes nothing but the user_feedback
\* of the rows with the request's id; every other step, a new attempt
\* included, leaves the rows already there as they are and at most appends.
C16_Step ==
    /\ Len(experiences') >= Len(experiences)
    /\ \A i \in DOMAIN experiences :
           Inserted(experiences'[i]) = Inserted(experiences[i])
    /\ FeedbackStep =>
           /\ Len(experiences') = Len(experiences)
           /\ \A i \in DOMAIN experiences :
                  experiences[i].id # Served.InteractionID =>
                      experiences'[i] = experiences[i]
    /\ ~FeedbackStep =>
           SubSeq(experiences', 1, Len(experiences)) = experiences

C16_RowsImmutable == [][C16_Step]_vars

\* row 1 of a /query run was given feedback 1 before the next attempt added
\* row 2 (a request for id 2 was still answered not-found in between), and
\* row 1 still records its execution error
C16_Witness ==
    /\ Len(feedbacks) = 2
    /\ feedbacks[1].InteractionID = 1 /\ feedbacks[1].Feedback = 1
    /\ feedbacks[1].err = NilErr
    /\ feedbacks[2].InteractionID = 2
    /\ feedbacks[2].err = NotFoundErr(2)
    /\ \E r \in Reqs : \E i, j \in RowsWritten(r) :
           /\ experiences[i].id = 1 /\ experiences[j].id = 2
           /\ experiences[i].user_feedback = 1
           /\ experiences[j].user_feedback = 0
           /\ HasResultPrefix(experiences[i], "Execution Error: ")

---------------------------------------------------------------------------
(* C17 *)

\* C17 as stated: the user_feedback of every row is 0, 1 or -1.
C17_AsStated ==
    \A i \in DOMAIN experiences : experiences[i].user_feedback \in {0, 1, -1}

---------------------------------------------------------------------------
(* C18 *)

\* request r makes a LogExperience call in this step
Logs(r) == calls'[r] # calls[r] /\ LastCall(r)'.fn = "LogExperience"

\* C18: a LogExperience call that succeeds appends exactly one row, which
\* holds the four values passed, user_feedback 0 and the id returned, an id
\* that is not 0 and that no row had; the rows already there are unchanged.
C18_Step ==
    \A r \in DOMAIN calls :
        Logs(r) =>
            LET c == LastCall(r)'
            IN Wrote(c) =>
                   /\ experiences' = Append(experiences,
                         [id               |-> c.id,
                          source           |-> c.source,
                          prompt           |-> c.prompt,
                          generated_query  |-> c.generated_query,
                          execution_result |-> c.execution_result,
                          user_feedback    |-> 0])
                   /\ ~HasRow(c.id)

C18_LogExperience == [][C18_Step]_vars

\* a row with an empty generated query was appended after an older row that
\* had been given feedback, and the older row still has it
C18_Witness ==
    /\ Len(experiences) = 2
    /\ experiences[1].user_feedback = -1
    /\ feedbacks # << >> /\ feedbacks[1].before = {0}
    /\ feedbacks[1].after = {-1}
    /\ experiences[2].generated_query = NoText
    /\ experiences[2].user_feedback = 0
    /\ \E r \in Reqs : RowsWritten(r) = {2} /\ kind[r] = "/query"
    /\ Len(feedbacks) = 1

---------------------------------------------------------------------------
(* C19 *)

\* C19 as stated: a /feedback request whose value is neither 1 nor -1 is
\* answered with a client error and leaves user_feedback unchanged.
C19_AsStated ==
    \A k \in DOMAIN feedbacks :
        feedbacks[k].Feedback \notin {1, -1} =>
            /\ feedbacks[k].resp.status \in 400 .. 499
            /\ feedbacks[k].after = feedbacks[k].before

---------------------------------------------------------------------------
(* C20 *)

\* C20: no row has id 0, before or after any step, and a step that serves
\* a /feedback request with interaction_id 0 answers with an error status
\* (an UpdateFeedback call it makes returns an error) and changes no row.
C20_Step ==
    /\ ~HasRow(0)
    /\ \A i \in DOMAIN experiences' : experiences'[i].id # 0
    /\ FeedbackStep /\ Served.InteractionID = 0 =>
           /\ Served.resp.status \in {400, 405, 500}
           /\ Served.called =>
                  Served.err # NilErr /\ Served.resp = HttpError(500)
           /\ experiences' = experiences

C20_ZeroNeverApplied == [][C20_Step]_vars

\* feedback for id 0 was answered not-found with rows in the table, one of
\* them written by the request of this behaviour
C20_Witness ==
    /\ \E k \in DOMAIN feedbacks :
           /\ feedbacks[k].called
           /\ feedbacks[k].InteractionID = 0
           /\ feedbacks[k].Feedback = 1
           /\ feedbacks[k].err = NotFoundErr(0)
           /\ feedbacks[k].resp.status = 500
    /\ \E r \in Reqs : RowsWritten(r) # {}
    /\ \A i \in DOMAIN experiences : experiences[i].user_feedback = 0

---------------------------------------------------------------------------
(* C21 *)

\* C21 as stated: a /feedback request naming an id that no row has is
\* answered with a client error, a 4xx status, and no row appears for it.
C21_AsStated ==
    \A k \in DOMAIN feedbacks :
        feedbacks[k].called /\ feedbacks[k].before = {} =>
            /\ feedbacks[k].resp.status \in 400 .. 499
            /\ feedbacks[k].after = {}

---------------------------------------------------------------------------
(* C22 *)

\* the /query request was sent with a wrong method, a malformed body or a
\* body without the query field
Invalid(r) ==
    /\ kind[r] = "/query"
    /\ \/ resp[r] = HttpError(405)
       \/ resp[r] = HttpError(400)
       \/ attempt[r] >= 1 /\ query[r] = ""

\* C22 as stated: an invalid /query request makes no provider call and no
\* store query and writes no row.
C22_AsStated ==
    \A r \in Reqs :
        Invalid(r) => calls[r] = << >> /\ RowsWritten(r) = {}

---------------------------------------------------------------------------
(* C23 *)

\* the /recommend request was accepted and has been answered
RecommendDone(r) ==
    kind[r] = "/recommend" /\ pc[r] = "done" /\ resp[r] # HttpError(405)

\* C23 as stated: every accepted /recommend request calls
\* GenerateRecommendations exactly once and writes exactly one row, with
\* source "recommend", and is answered in JSON whatever the summary queries
\* returned.
C23_AsStated ==
    \A r \in Reqs :
        RecommendDone(r) =>
            /\ Cardinality({i \in DOMAIN calls[r] :
                   calls[r][i].fn = "GenerateRecommendations"}) = 1
            /\ Cardinality(RowsWritten(r)) = 1
            /\ \A i \in RowsWritten(r) : experiences[i].source = "recommend"
            /\ IsJSON(r)

\* C23 (amended): every accepted /recommend request runs the five summary
\* queries, calls GenerateRecommendations exactly once with the sections of
\* the queries that succeeded, and makes exactly one LogExperience call, with
\* source "recommend"; the request has that one row when the write succeeds
\* and no row when it fails.  The response is JSON and carries an error
\* exactly when GenerateRecommendations failed.
C23_RecommendOnce ==
    \A r \in Reqs :
        RecommendDone(r) =>
            LET recs == SelectSeq(calls[r],
                           LAMBDA c : c.fn = "GenerateRecommendations")
                logs == SelectSeq(calls[r],
                           LAMBDA c : c.fn = "LogExperience")
                sums == SelectSeq(calls[r], LAMBDA c : c.fn \in StoreOps)
                good == SelectSeq(sums, LAMBDA c : ~Failed(c))
            IN /\ Len(sums) = 5 /\ Len(recs) = 1 /\ Len(logs) = 1
               /\ Len(calls[r]) = 7
               /\ recs[1].systemData = [i \in 1 .. Len(good) |-> good[i].q]
               /\ logs[1].source = "recommend"
               /\ logs[1].prompt = "Generate system recommendations"
               /\ logs[1].generated_query = NoText
               /\ IsJSON(r)
               /\ ErrorSet(r) <=> Failed(recs[1])
               /\ IF Wrote(logs[1])
                  THEN /\ RowOfCall(logs[1])
                       /\ Cardinality(RowsWritten(r)) = 1
                  ELSE RowsWritten(r) = {}

\* all five summary queries failed, the recommendations were generated from
\* no data and the row was written
C23_Witness ==
    \E r \in Reqs :
        /\ RecommendDone(r)
        /\ \A i \in StoreAt(r) : Failed(calls[r][i])
        /\ AnswerSet(r)
        /\ Cardinality(RowsWritten(r)) = 1
        /\ \A i \in RowsWritten(r) :
               /\ experiences[i].source = "recommend"
               /\ experiences[i].execution_result = <<"Success">>

---------------------------------------------------------------------------
(* C24 *)

\* positions of the GenerateSQL and store calls of the run
AttemptAt(r) == GenAt(r) \cup StoreAt(r)

\* call i of the run is a failed store execution followed by its log write
FailedExecutionLogged(r, i) ==
    /\ i \in StoreAt(r) /\ Failed(calls[r][i])
    /\ i + 1 \in LogAt(r)

\* C24: the calls of one /query run form one sequence, the handler being at
\* one position at a time.  Every store execution directly follows the
\* successful GenerateSQL call of the same attempt and runs its text;
\* ExplainResults directly follows a successful store execution; the k-th
\* GenerateSQL call is attempt k, and an attempt after the first starts
\* directly after the failed GenerateSQL call of the previous attempt or
\* after the log write of its failed execution; the handler executes only
\* after a generation, and explains only after an execution, has returned.
C24_Sequential ==
    \A r \in Reqs :
        QueryRun(r) =>
            /\ \A i \in StoreAt(r) :
                   /\ i - 1 \in GenAt(r)
                   /\ ~Failed(calls[r][i - 1])
                   /\ calls[r][i - 1].attempt = calls[r][i].attempt
                   /\ calls[r][i - 1].text = calls[r][i].generated
            /\ \A i \in ExplainAt(r) :
                   /\ i - 1 \in StoreAt(r)
                   /\ ~Failed(calls[r][i - 1])
                   /\ \A j \in AttemptAt(r) : j < i
            /\ \A i, j \in AttemptAt(r) :
                   i < j => calls[r][i].attempt <= calls[r][j].attempt
            /\ \A i \in GenAt(r) :
                   LET k == calls[r][i].attempt
                   IN /\ k = Cardinality({j \in GenAt(r) : j <= i})
                      /\ k > 1 =>
                            \/ /\ i - 1 \in GenAt(r)
                               /\ Failed(calls[r][i - 1])
                               /\ calls[r][i - 1].attempt = k - 1
                            \/ /\ i > 2
                               /\ FailedExecutionLogged(r, i - 2)
                               /\ calls[r][i - 2].attempt = k - 1
            /\ pc[r] = "execute" =>
                   /\ LastCall(r).fn = "GenerateSQL"
                   /\ ~Failed(LastCall(r))
                   /\ LastCall(r).attempt = attempt[r]
            /\ pc[r] = "explain" =>
                   LastCall(r).fn \in StoreOps /\ ~Failed(LastCall(r))
            /\ pc[r] = "generate" =>
                   attempt[r] = Cardinality(GenAt(r)) + 1

\* a run of three attempts: generation failed, then execution failed, then
\* both succeeded and the results were explained
C24_Witness ==
    \E r \in Reqs :
        /\ QueryDone(r)
        /\ Len(calls[r]) = 8
        /\ calls[r][1].fn = "GenerateSQL" /\ Failed(calls[r][1])
        /\ calls[r][2].fn = "GenerateSQL" /\ ~Failed(calls[r][2])
        /\ FailedExecutionLogged(r, 3)
        /\ calls[r][5].fn = "GenerateSQL" /\ calls[r][5].attempt = 3
        /\ calls[r][6].fn \in StoreOps /\ ~Failed(calls[r][6])
        /\ calls[r][7].fn = "ExplainResults"
        /\ calls[r][8].fn = "LogExperience"

---------------------------------------------------------------------------
(* C25 *)

\* the text of the last GenerateSQL call of r before position j
GeneratedBefore(r, j) ==
    calls[r][Max({i \in GenAt(r) : i < j})].text

\* request r of the concurrent requests has been decoded as a /query
ConcRun(r) == kind[r] = "/query" /\ attempt[r] >= 1

\* C25: with two requests interleaved in any way, the variables of a /query
\* run hold that request's own prompt and its own collaborators' returns;
\* its attempt counter counts its own GenerateSQL calls, and a later attempt
\* starts only after a failure of its own; every row it logs carries its
\* prompt and its own generated text, the rows with its prompt are the rows
\* it wrote, and its response carries its own answer or error and, when not
\* 0, the id of a row holding its prompt.
C25_RequestLocal ==
    \A r \in DOMAIN pc :
        ConcRun(r) =>
            /\ query[r] = ConcPrompt(r)
            /\ sqlQuery[r] \in {NoText, ConcText(r)}
            /\ results[r] \in {"", ConcRows(r)}
            /\ err[r] \in {NilErr, ConcErr(r)}
            /\ attempt[r] = Cardinality(GenAt(r))
                              + (IF pc[r] = "generate" THEN 1 ELSE 0)
            /\ \A i \in GenAt(r) :
                   calls[r][i].attempt > 1 =>
                       \/ i - 1 \in GenAt(r) /\ Failed(calls[r][i - 1])
                       \/ i > 2 /\ FailedExecutionLogged(r, i - 2)
            /\ \A j \in LogAt(r) :
                   LET c == calls[r][j]
                   IN /\ c.prompt = ConcPrompt(r)
                      /\ c.generated_query = GeneratedBefore(r, j)
                      /\ c.execution_result[Len(c.execution_result)]
                             \in {"Success", ConcErr(r)}
                      /\ Wrote(c) => RowOfCall(c)
            /\ \A i \in ExplainAt(r) :
                   /\ calls[r][i].userQuery = ConcPrompt(r)
                   /\ calls[r][i].sql = ConcText(r)
                   /\ calls[r][i].results = ConcRows(r)
            /\ RowsWritten(r) =
                   {i \in DOMAIN experiences :
                       experiences[i].prompt = ConcPrompt(r)}
            /\ IsJSON(r) =>
                   /\ resp[r].InteractionID = LastCall(r).id
                   /\ resp[r].Answer \in {"", ConcAnswer(r)}
                   /\ ErrorSet(r) =>
                          resp[r].Error[Len(resp[r].Error)] = ConcErr(r)
                   /\ resp[r].InteractionID # 0 =>
                          \E i \in RowsWritten(r) :
                              /\ experiences[i].id = resp[r].InteractionID
                              /\ experiences[i].prompt = query[r]

\* two /query runs whose rows alternate in the table: one took three
\* attempts and ended in an error, the other succeeded at once
C25_Witness ==
    \E r1, r2 \in DOMAIN pc :
        /\ ConcRun(r1) /\ ConcRun(r2) /\ r1 # r2
        /\ pc[r1] = "done" /\ pc[r2] = "done"
        /\ Cardinality(GenAt(r1)) = 3 /\ ErrorSet(r1)
        /\ Cardinality(GenAt(r2)) = 1 /\ AnswerSet(r2)
        /\ resp[r1].InteractionID # 0 /\ resp[r2].InteractionID # 0
        /\ \E i \in RowsWritten(r1), j \in RowsWritten(r2),
              k \in RowsWritten(r1) : i < j /\ j < k

---------------------------------------------------------------------------
(* C26 *)

\* call i of the run is a store execution that returned no error and an
\* empty result set
EmptySuccess(r, i) ==
    /\ i \in StoreAt(r)
    /\ ~Failed(calls[r][i])
    /\ calls[r][i].text = ""

ExecutionErrorLits == {"Execution Error: ", "Final Execution Error: "}

\* C26: a store execution that returns no error and the empty result set
\* ends the retry loop like any other success.  The handler goes on to
\* ExplainResults, which is the next call and is passed the empty result
\* set as it is; no GenerateSQL call and no store execution follows, and no
\* row written afterwards records an execution error.
C26_EmptyIsSuccess ==
    \A r \in DOMAIN pc :
        QueryRun(r) =>
            \A i \in StoreAt(r) :
                EmptySuccess(r, i) =>
                    /\ IF i = Len(calls[r])
                       THEN pc[r] = "explain" /\ results[r] = ""
                       ELSE /\ i + 1 \in ExplainAt(r)
                            /\ calls[r][i + 1].results = ""
                            /\ calls[r][i + 1].sql = calls[r][i].generated
                    /\ \A j \in DOMAIN calls[r] :
                           j > i =>
                               /\ j \notin AttemptAt(r)
                               /\ j \in LogAt(r) =>
                                      calls[r][j].execution_result[1]
                                          \notin ExecutionErrorLits

\* a first attempt returned the empty result set, and the run ended with
\* an answer and a Success row after exactly one execution
C26_Witness ==
    \E r \in DOMAIN pc :
        /\ Succeeded(r) /\ AnswerSet(r)
        /\ \E i \in StoreAt(r) :
              /\ EmptySuccess(r, i)
              /\ calls[r][i + 1].results = ""
        /\ Cardinality(StoreAt(r)) = 1
        /\ Wrote(LastCall(r))
        /\ LastCall(r).execution_result = <<"Success">>

---------------------------------------------------------------------------
(* C27 *)

\* the run ended because GenerateSQL failed on the last attempt: its last
\* two calls are that GenerateSQL call and the log write
FinalGenFailure(r) ==
    /\ QueryDone(r)
    /\ Len(calls[r]) >= 2
    /\ Len(calls[r]) - 1 \in GenAt(r)
    /\ Failed(calls[r][Len(calls[r]) - 1])

FinalGenErr(r) == calls[r][Len(calls[r]) - 1].err

\* C27 as stated: on a GenerateSQL failure with error text E on the final
\* attempt the row has execution_result "Failed to generate query: E" and
\* the response error is "Failed to generate query after 3 attempts: E".
C27_AsStated ==
    \A r \in DOMAIN pc :
        FinalGenFailure(r) =>
            /\ LastCall(r).execution_result =
                   Sprintf1("Failed to generate query: ", FinalGenErr(r))
            /\ resp[r].Error =
                   Sprintf2("Failed to generate query after ", "3",
                            " attempts: ", FinalGenErr(r))

\* C27: when GenerateSQL fails with error text E on the final attempt, the
\* handler logs, with an empty generated_query, the execution_result
\* "Failed to generate SQL: E" (the row is in the table when the write
\* succeeded) and the response error is "Failed to generate MetricsQL after
\* 3 attempts: E"; the failed call is the third GenerateSQL call of the run.
C27_GenFailureTexts ==
    \A r \in DOMAIN pc :
        FinalGenFailure(r) =>
            /\ calls[r][Len(calls[r]) - 1].attempt = 3
            /\ Cardinality(GenAt(r)) = 3
            /\ LastCall(r).fn = "LogExperience"
            /\ LastCall(r).prompt = query[r]
            /\ LastCall(r).generated_query = NoText
            /\ LastCall(r).execution_result =
                   <<"Failed to generate SQL: ", FinalGenErr(r)>>
            /\ Wrote(LastCall(r)) => RowOfCall(LastCall(r))
            /\ IsJSON(r)
            /\ resp[r].Error =
                   <<"Failed to generate MetricsQL after ", "3",
                     " attempts: ", FinalGenErr(r)>>
            /\ resp[r].Answer = ""
            /\ resp[r].InteractionID = LastCall(r).id

\* GenerateSQL failed three times and the row of the failure was written
C27_Witness ==
    \E r \in DOMAIN pc :
        /\ FinalGenFailure(r)
        /\ \A i \in GenAt(r) : Failed(calls[r][i])
        /\ Wrote(LastCall(r))
        /\ RowOfCall(LastCall(r))
        /\ resp[r].InteractionID = LastCall(r).id

---------------------------------------------------------------------------
(* C28 *)

\* C28: once Close has returned without error, every later Close call
\* finds the handle closed and returns without error, and the log stays
\* closed: no row is written after a Close call, whatever it returned.
C28_CloseIdempotent ==
    /\ closes # << >> => closed
    /\ \A k \in DOMAIN closes :
           /\ closes[k].rows = experiences
           /\ k >= 2 /\ closes[1].err = NilErr =>
                  /\ closes[k].wasClosed
                  /\ closes[k].err = NilErr

\* Close was called twice, both calls returned nil, and a log write
\* attempted afterwards failed
C28_Witness ==
    /\ Len(closes) = 2
    /\ closes[1].err = NilErr /\ ~closes[1].wasClosed
    /\ closes[2].err = NilErr /\ closes[2].wasClosed
    /\ closes[1].rows # << >>
    /\ \E r \in DOMAIN pc :
          /\ pc[r] = "done"
          /\ calls[r] # << >>
          /\ LastCall(r).fn = "LogExperience"
          /\ ~Wrote(LastCall(r))
          /\ RowsWritten(r) # {}

---------------------------------------------------------------------------
(* C29 *)

\* the runs that have gone through their three collectors
FinishedRuns == {k \in DOMAIN sched.runs : Len(sched.runs[k]) = 3}

\* C29 as stated: once startScheduler has been entered a first collection
\* has been started, with the ticker set to the configured interval, or to
\* 5 minutes when the flag does not parse; every tick the ticker fired has
\* started one run or is waiting to start one; a run consists of the three
\* collectors, only the last run can be unfinished, and a finished run
\* leaves the scheduler waiting for a tick or running the next collection,
\* whatever its collectors returned.
C29_AsStated ==
    sched.pc # "start" =>
        /\ Len(sched.runs) >= 1
        /\ sched.interval = Interval(sched.intervalStr)
        /\ Len(sched.runs) + sched.pending = 1 + sched.ticks
        /\ \A k \in DOMAIN sched.runs :
               k < Len(sched.runs) => k \in FinishedRuns
        /\ sched.pc \in {"CollectLogs", "CollectMetrics",
                         "CollectProcessMetrics", "wait"}

---------------------------------------------------------------------------
(* C30 *)

InsertOps == {"InsertMetric", "InsertLog", "InsertLogs"}
QueryOps  == {"QueryLogs", "QueryMetrics"}

\* the request an operation sends is the one the backend expects
RequestAsDocumented ==
    store.sent =>
        /\ store.op = "InsertMetric" =>
               store.req.method = "POST" /\ store.req.path = "/write"
        /\ store.op \in {"InsertLog", "InsertLogs"} =>
               /\ store.req.method = "POST"
               /\ store.req.path = "/insert/jsonline"
        /\ store.op = "QueryLogs" =>
               /\ store.req.method = "GET"
               /\ store.req.path = "/select/logsql/query"
               /\ store.req.query \in StoreQueries
        /\ store.op = "QueryMetrics" =>
               /\ store.req.method = "GET"
               /\ store.req.query \in StoreQueries

\* a query returns a result exactly when it was answered 200 with a body
\* that decodes; otherwise it returns an error and the empty result
QueriesAsStated ==
    store.op \in QueryOps =>
        /\ store.err = NilErr <=>
               store.delivered /\ store.status = 200 /\ store.decodes
        /\ store.err # NilErr => store.result = << >>

\* C30 as stated: every insert returns nil exactly when its request was
\* delivered and answered 200 or 204, and every query returns a result
\* exactly when it was answered 200 with a body that decodes.
C30_AsStated ==
    /\ RequestAsDocumented
    /\ QueriesAsStated
    /\ store.op \in InsertOps =>
           (store.err = NilErr <=>
                store.delivered /\ store.status \in {200, 204})

\* C30: InsertMetric and InsertLog return nil exactly when the request was
\* delivered and answered 200 or 204; InsertLogs does so for a batch that is
\* not empty, and for an empty batch returns nil without sending anything;
\* QueryLogs and QueryMetrics return a result exactly when the answer is 200
\* and the body decodes, and otherwise an error with the empty result.
C30_StoreErrors ==
    /\ RequestAsDocumented
    /\ QueriesAsStated
    /\ store.op \in InsertOps =>
           (store.err = NilErr <=>
                \/ store.delivered /\ store.status \in {200, 204}
                \/ store.op = "InsertLogs" /\ ~store.sent)
    /\ store.op \in {"InsertMetric", "InsertLog"} /\ store.err = NilErr =>
           store.sent

\* a batch of log entries was delivered and answered 200: nil is returned
C30_Witness ==
    /\ store.op = "InsertLogs"
    /\ store.sent /\ store.delivered
    /\ store.status = 200
    /\ store.err = NilErr

---------------------------------------------------------------------------
(* C31 *)

\* the lines of a request body: the body cut after every "\n"
RECURSIVE LinesOf(_)
LinesOf(body) ==
    IF body = << >> THEN << >>
    ELSE LET n == CHOOSE i \in DOMAIN body :
                      /\ body[i] = "\n"
                      /\ \A j \in 1 .. i - 1 : body[j] # "\n"
         IN <<SubSeq(body, 1, n - 1)>> \o LinesOf(SubSeq(body, n + 1,
                                                          Len(body)))

\* C31: InsertLogs of a list that is not empty sends one POST request to
\* /insert/jsonline whose body holds exactly one line per entry, the k-th
\* line being the JSON of the k-th entry; InsertLogs of the empty list
\* sends no request and returns nil.
C31_InsertLogsBatch ==
    store.op = "InsertLogs" =>
        IF store.input = << >>
        THEN ~store.sent /\ store.req = NoRequest /\ store.err = NilErr
        ELSE /\ store.sent
             /\ store.req.method = "POST"
             /\ store.req.path = "/insert/jsonline"
             /\ Len(LinesOf(store.req.body)) = Len(store.input)
             /\ \A k \in DOMAIN store.input :
                    LinesOf(store.req.body)[k] = Marshal(store.input[k])

\* a batch of two different entries was sent and accepted
C31_Witness ==
    /\ store.op = "InsertLogs"
    /\ store.input = <<"l2", "l1">>
    /\ store.sent /\ store.delivered /\ store.status = 204
    /\ store.err = NilErr
    /\ Len(LinesOf(store.req.body)) = 2

---------------------------------------------------------------------------
(* C32 *)

FailedExecutions(r) == {i \in StoreAt(r) : Failed(calls[r][i])}

\* C32: in a /query run that passed validation and whose log writes all
\* succeeded, the rows written while the run is in its loop are one per
\* failed store execution, and the finished run has written one row more,
\* that of its terminal outcome: between 1 and 4 rows, whatever failed.
C32_RowCount ==
    \A r \in DOMAIN pc :
        QueryRun(r) /\ AllWritesSucceeded(r) =>
            LET rows   == Cardinality(RowsWritten(r))
                failed == Cardinality(FailedExecutions(r))
            IN IF pc[r] = "done"
               THEN rows = failed + 1 /\ rows \in 1 .. 4
               ELSE rows = failed /\ rows \in 0 .. 3

\* generation failed on attempt 1, execution failed on attempt 2, attempt 3
\* succeeded and its explanation failed: two rows
C32_Witness ==
    \E r \in DOMAIN pc :
        /\ QueryDone(r) /\ AllWritesSucceeded(r)
        /\ Cardinality(GenAt(r)) = 3
        /\ Cardinality({i \in GenAt(r) : Failed(calls[r][i])}) = 1
        /\ Cardinality(FailedExecutions(r)) = 1
        /\ ExplainAt(r) # {}
        /\ \A i \in ExplainAt(r) : Failed(calls[r][i])
        /\ Cardinality(RowsWritten(r)) = 2

---------------------------------------------------------------------------
(* C33 *)

\* the log writes of run r that recorded a failed execution inside the loop
InterimAt(r) ==
    {j \in LogAt(r) : calls[r][j].execution_result[1] = "Execution Error: "}

\* the ids of the rows those writes left
InterimIds(r) == {calls[r][j].id : j \in {i \in InterimAt(r) :
                                              Wrote(calls[r][i])}}

\* C33: the JSON response of a /query run carries the id its last
\* LogExperience call returned, and that call wrote the terminal outcome,
\* not an "Execution Error" row; a non-zero interaction_id is therefore the
\* id of the last row the run wrote.  The id of an interim row is in no
\* response, of this request or of a concurrent one.
C33_TerminalId ==
    \A r \in DOMAIN pc :
        /\ QueryRun(r) /\ IsJSON(r) =>
               /\ LastCall(r).fn = "LogExperience"
               /\ Len(calls[r]) \notin InterimAt(r)
               /\ resp[r].InteractionID = LastCall(r).id
               /\ resp[r].InteractionID # 0 =>
                      \E i \in RowsWritten(r) :
                          /\ experiences[i].id = resp[r].InteractionID
                          /\ experiences[i].execution_result =
                                 LastCall(r).execution_result
                          /\ \A k \in RowsWritten(r) : k <= i
        /\ QueryRun(r) =>
               \A q \in DOMAIN pc : resp[q].InteractionID \notin InterimIds(r)

\* a run wrote three interim rows and the final one while the other request
\* wrote a row in between; its response carries the id of its fourth row
C33_Witness ==
    \E r, q \in DOMAIN pc :
        /\ r # q
        /\ QueryDone(r) /\ IsJSON(r)
        /\ Cardinality(InterimIds(r)) = 3
        /\ Cardinality(RowsWritten(r)) = 4
        /\ resp[r].InteractionID # 0
        /\ resp[r].InteractionID = LastCall(r).id
        /\ \E k \in RowsWritten(q), i \in RowsWritten(r) :
              /\ k < i
              /\ \E j \in RowsWritten(r) : j < k

---------------------------------------------------------------------------
(* C34 *)

\* the calls of the request to the provider and the store
WorkAt(r) == DOMAIN calls[r] \ LogAt(r)

LastWork(r) == calls[r][Max(WorkAt(r))]

\* the answer and error text that follow from the last provider or store
\* call of a request, the log left aside
OutcomeOf(c) ==
    CASE c.fn = "ExplainResults" ->
             IF Failed(c)
             THEN [Answer |-> "",
                   Error |-> <<"Failed to explain results: ", c.err>>]
             ELSE [Answer |-> c.text, Error |-> NoText]
      [] c.fn = "GenerateRecommendations" ->
             IF Failed(c)
             THEN [Answer |-> "",
                   Error |-> <<"Failed to generate recommendations: ",
                               c.err>>]
             ELSE [Answer |-> c.text, Error |-> NoText]
      [] c.fn = "GenerateSQL" ->
             [Answer |-> "",
              Error |-> <<"Failed to generate MetricsQL after ", "3",
                          " attempts: ", c.err>>]
      [] OTHER ->
             [Answer |-> "",
              Error |-> <<"Failed to execute query after ", "3",
                          " attempts: ", c.err>>]

\* C34: whether a log write succeeds or fails, the run goes the same way.
\* A failed execution before the last attempt is followed, after its log
\* call, by the GenerateSQL call of the next attempt; the answer and the
\* error text of every JSON response are those that follow from the last
\* provider or store call; and the response of a run whose terminal write
\* failed has interaction_id 0.
C34_LogFailureHarmless ==
    \A r \in DOMAIN pc :
        /\ QueryRun(r) =>
               \A i \in FailedExecutions(r) :
                   /\ i + 1 \in LogAt(r)
                   /\ IF calls[r][i].attempt < 3
                      THEN IF i + 1 = Len(calls[r])
                           THEN /\ pc[r] = "generate"
                                /\ attempt[r] = calls[r][i].attempt + 1
                           ELSE /\ i + 2 \in GenAt(r)
                                /\ calls[r][i + 2].attempt =
                                       calls[r][i].attempt + 1
                      ELSE IF i + 1 = Len(calls[r])
                           THEN pc[r] = "final"
                           ELSE i + 2 \in LogAt(r) /\ pc[r] = "done"
        /\ IsJSON(r) =>
               /\ resp[r].status = 200
               /\ resp[r].Answer = OutcomeOf(LastWork(r)).Answer
               /\ resp[r].Error = OutcomeOf(LastWork(r)).Error
               /\ ~Wrote(LastCall(r)) => resp[r].InteractionID = 0

\* every log write of the run failed: two interim ones and the terminal
\* one; the third attempt succeeded and the response carries the answer
C34_Witness ==
    \E r \in DOMAIN pc :
        /\ QueryDone(r) /\ IsJSON(r)
        /\ Cardinality(LogAt(r)) = 3
        /\ \A j \in LogAt(r) : ~Wrote(calls[r][j])
        /\ Cardinality(FailedExecutions(r)) = 2
        /\ AnswerSet(r) /\ ~ErrorSet(r)
        /\ resp[r].InteractionID = 0

---------------------------------------------------------------------------
(* C35 *)

\* the bounds of a run, and what the handler holds at each position: no
\* response before the end, one at the end, and after the loop the result
\* of an execution that succeeded
C35_Bounded ==
    \A r \in Reqs :
        QueryRun(r) =>
            /\ Cardinality(GenAt(r)) <= 3
            /\ Cardinality(StoreAt(r)) <= 3
            /\ Cardinality(ExplainAt(r)) <= 1
            /\ pc[r] = "done" <=> resp[r] # NoResponse
            /\ pc[r] = "done" => IsJSON(r)
            /\ pc[r] = "explain" =>
                   /\ Len(calls[r]) \in StoreAt(r)
                   /\ ~Failed(LastCall(r))
                   /\ results[r] = LastCall(r).text

\* a response, once sent, is the only one: the handler has returned
C35_OneResponse ==
    \A r \in Reqs :
        resp[r] # NoResponse =>
            /\ resp'[r] = resp[r]
            /\ calls'[r] = calls[r]
            /\ pc'[r] = "done"

\* C35: a /query run that passed validation makes at most 3 GenerateSQL
\* calls, 3 store executions and 1 ExplainResults call; it leaves the loop
\* only with a response sent or with the result of a successful execution;
\* it sends one response and does nothing after it; and, every collaborator
\* call returning, it does reach that response.
C35_Terminates ==
    /\ []C35_Bounded
    /\ [][C35_OneResponse]_vars
    /\ \A r \in Reqs :
           QueryRun(r) ~> (pc[r] = "done" /\ resp[r] # NoResponse)

\* the longest run: three generations, three failed executions, the final
\* error response
C35_Witness ==
    \E r \in Reqs :
        /\ QueryDone(r) /\ IsJSON(r)
        /\ Cardinality(GenAt(r)) = 3
        /\ Cardinality(StoreAt(r)) = 3
        /\ Cardinality(FailedExecutions(r)) = 3
        /\ ExplainAt(r) = {}
        /\ ErrorSet(r)

---------------------------------------------------------------------------
(* C36 *)

\* the request ended because its last provider or store call failed
OrchestratorFailure(r) ==
    /\ pc[r] = "done"
    /\ WorkAt(r) # {}
    /\ Failed(LastWork(r))

\* the request was rejected before any call was made
ValidationFailure(r) ==
    /\ pc[r] = "done"
    /\ calls[r] = << >>

\* the CLI has read the response of request r
CliHasRead(r) ==
    /\ cli.step = "exited"
    /\ cli.req.path = kind[r]
    /\ cli.report # "Error contacting server"

\* C36: a request that ends in a failure of the provider or the store is
\* answered with status 200 and a JSON body whose error field is not empty;
\* a request that fails validation is answered with status 405 or 400 and
\* a plain-text body.  The CLI that reads the response exits with "Server
\* Error" in the first case and "Server returned error" in the second, and
\* prints an answer exactly when the status is 200 and the error field is
\* empty.
C36_ErrorDelivery ==
    \A r \in Reqs :
        /\ OrchestratorFailure(r) =>
               /\ resp[r].status = 200 /\ IsJSON(r)
               /\ resp[r].Error # NoText
               /\ resp[r].Error[1] # ""
               /\ resp[r].Answer = ""
        /\ ValidationFailure(r) =>
               /\ resp[r].status \in {400, 405}
               /\ resp[r].ctype = "text/plain"
        /\ CliHasRead(r) =>
               /\ OrchestratorFailure(r) =>
                      /\ cli.report = "Server Error"
                      /\ cli.exit = 1 /\ cli.shown = ""
               /\ ValidationFailure(r) =>
                      /\ cli.report = "Server returned error"
                      /\ cli.exit = 1 /\ cli.shown = ""
               /\ cli.report = "answer" <=>
                      resp[r].status = 200 /\ resp[r].Error = NoText
               /\ cli.report = "answer" =>
                      /\ cli.exit = 0
                      /\ cli.shown = resp[r].Answer
                      /\ cli.hint = resp[r].InteractionID

\* the CLI has read the response of a /query run whose third execution
\* failed
C36_Witness ==
    \E r \in Reqs :
        /\ CliHasRead(r)
        /\ kind[r] = "/query"
        /\ OrchestratorFailure(r)
        /\ Cardinality(FailedExecutions(r)) = 3
        /\ cli.report = "Server Error"
        /\ cli.exit = 1

---------------------------------------------------------------------------
(* C37 *)

\* the run was started with --feedback
FeedbackRun == cli.step # "none" /\ cli.flags.feedback # ""

\* C37: the CLI sends a request to /feedback only when --feedback is
\* "good" or "bad" in any letter case and --id is not 0: the request is a
\* POST carrying that id and the value 1 for good, -1 for bad.  With
\* --feedback given and --id 0, or with any other literal, the run exits
\* with code 1 and has sent no request.
C37_CliFeedback ==
    /\ cli.req.path = "/feedback" =>
           /\ cli.sent /\ FeedbackRun
           /\ cli.req.method = "POST"
           /\ cli.flags.id # 0
           /\ cli.req.interaction_id = cli.flags.id
           /\ ToLower(cli.flags.feedback) \in {"good", "bad"}
           /\ cli.req.feedback =
                  (IF ToLower(cli.flags.feedback) = "good" THEN 1
                                                           ELSE 0 - 1)
    /\ FeedbackRun =>
           IF cli.flags.id = 0
                 \/ ToLower(cli.flags.feedback) \notin {"good", "bad"}
           THEN /\ ~cli.sent /\ cli.req = NoCliRequest
                /\ cli.step = "exited" /\ cli.exit = 1
           ELSE cli.sent /\ cli.req.path = "/feedback"

\* "--feedback Bad --id 7" was sent as -1 for id 7 and recorded
C37_Witness ==
    /\ cli.flags.feedback = "Bad" /\ cli.flags.id = 7
    /\ cli.sent
    /\ cli.req.path = "/feedback"
    /\ cli.req.interaction_id = 7 /\ cli.req.feedback = 0 - 1
    /\ cli.report = "Feedback recorded" /\ cli.exit = 0

---------------------------------------------------------------------------
(* C38 *)

\* what happens after the signal, in order
ShutdownOrder ==
    <<"Shutdown", "shutdownCancel", "rlDB.Close", "cancel",
      "stopProcess(logsCmd)", "stopProcess(metricsCmd)">>

\* position of event e in the events so far, 0 when it has not happened
At(e) ==
    IF \E i \in DOMAIN shut.events : shut.events[i] = e
    THEN CHOOSE i \in DOMAIN shut.events : shut.events[i] = e
    ELSE 0

Before(a, b) == At(b) # 0 => At(a) # 0 /\ At(a) < At(b)

\* C38: after the signal server.Shutdown returns first, with nil or after
\* its timeout; then the experience log is closed, then the VictoriaLogs
\* process is stopped, then the VictoriaMetrics process, each exactly once.
\* The log is open as long as Shutdown has not returned; a handler makes a
\* call after the log was closed only when Shutdown timed out, and every
\* log write it makes then fails.
C38_ShutdownOrder ==
    /\ shut.events = SubSeq(ShutdownOrder, 1, Len(shut.events))
    /\ Before("Shutdown", "rlDB.Close")
    /\ Before("rlDB.Close", "stopProcess(logsCmd)")
    /\ Before("stopProcess(logsCmd)", "stopProcess(metricsCmd)")
    /\ closed <=> At("rlDB.Close") # 0
    /\ shut.pc = "exited" <=> At("stopProcess(metricsCmd)") # 0
    /\ closed =>
           \A r \in DOMAIN calls :
               /\ ~shut.timedOut => Len(calls[r]) = shut.callsAtClose[r]
               /\ \A j \in LogAt(r) :
                      j > shut.callsAtClose[r] => ~Wrote(calls[r][j])

\* Shutdown timed out with a /query run in its loop; the run went on after
\* the log was closed, its terminal write failed and it answered without
\* an id before the child processes were stopped
C38_Witness ==
    \E r \in DOMAIN pc :
        /\ shut.timedOut /\ closed
        /\ At("stopProcess(logsCmd)") = 0
        /\ QueryDone(r) /\ IsJSON(r) /\ AnswerSet(r)
        /\ Len(calls[r]) > shut.callsAtClose[r]
        /\ shut.callsAtClose[r] >= 1
        /\ ~Wrote(LastCall(r))
        /\ resp[r].InteractionID = 0

====
